---- MODULE Spec2Model ----
(***************************************************************************)
(* eddie: Levenshtein, Damerau-Levenshtein, Hamming, Jaro and Jaro-Winkler *)
(* metrics.  The model follows src/src/slice/*.rs (the generic-slice       *)
(* engines), src/src/str/*.rs (the text engines that copy their arguments  *)
(* into two Buffers and delegate) and src/src/utils.                       *)
(*                                                                         *)
(* Elements are small naturals; the algorithms only compare them for       *)
(* equality (and use them as BTreeMap keys).  f64 results are modelled as  *)
(* exact rationals <<num, den>> in lowest terms with den > 0; rounding of  *)
(* f64 is not modelled.                                                    *)
(***************************************************************************)
EXTENDS Integers, Sequences, FiniteSets, TLC

\* ---------------------------------------------------------------- bounds
\* arguments of a single call on a new engine (SpecPure)
NumSyms == 3
MaxLen == 3
\* arguments of the calls that reuse one engine (Spec), and how many calls
EngSyms == 2
EngMaxLen == 2
MaxCalls == 2
\* how far an argument may run on after a common stem
MaxTail == 1
\* arguments of the calls that overlap on one engine (SpecShared)
ShSyms == 2
ShMaxLen == 2
\* lengths past every 8-bit counter: 2^8, and the fourth length of the growth
\* tests
WideLen == 256
GrowthLen == 301
\* the capacities a Buffer is built with and the longest sequence stored
BufMaxCap == 5
BufMaxLen == 9

SeqsOver(alphabet, len) == UNION {[1..n -> alphabet] : n \in 0..len}
\* one element longer, over two symbols: the shortest arguments in which the
\* Jaro window lets two matched elements cross
BinarySeqs == SeqsOver({1, 2}, MaxLen + 1)
EngSeqs == SeqsOver(1..EngSyms, EngMaxLen)

\* ------------------------------------------------------------- arithmetic
min2(x, y) == IF x <= y THEN x ELSE y
max2(x, y) == IF x >= y THEN x ELSE y
min3(x, y, z) == min2(x, min2(y, z))
min4(w, x, y, z) == min2(w, min3(x, y, z))
max3(x, y, z) == max2(x, max2(y, z))
SetMin(S) == CHOOSE x \in S : \A y \in S : x <= y
Abs(x) == IF x < 0 THEN -x ELSE x

RECURSIVE Gcd(_, _)
Gcd(x, y) == IF y = 0 THEN x ELSE Gcd(y, x % y)

Sgn(x) == IF x < 0 THEN -1 ELSE IF x > 0 THEN 1 ELSE 0

\* an f64 value as an exact rational in lowest terms, den > 0; a division by
\* zero does not trap: it gives an infinity <<1, 0>>, <<-1, 0>> or, for 0/0,
\* the NaN <<0, 0>>
Rat(n, d) ==
    IF d = 0 THEN <<Sgn(n), 0>>
    ELSE LET g == Gcd(Abs(n), Abs(d))
             s == IF d < 0 THEN -1 ELSE 1
         IN  <<(s * n) \div g, (s * d) \div g>>
RatAdd(x, y) == Rat(x[1] * y[2] + y[1] * x[2], x[2] * y[2])
RatSub(x, y) == Rat(x[1] * y[2] - y[1] * x[2], x[2] * y[2])
RatMul(x, y) == Rat(x[1] * y[1], x[2] * y[2])
RatDiv(x, y) == Rat(x[1] * y[2], x[2] * y[1])
RatLess(x, y) == x[1] * y[2] < y[1] * x[2]
RatInt(n) == <<n, 1>>

\* e, with v evaluated first: the iterations of a loop run in order, each on
\* the finished result of the one before
Strict(v, e) == IF v = v THEN e ELSE e

\* a call that panicked instead of returning, leaving the engine as self
Panic(self) == [panic |-> TRUE, ret |-> "panic", self |-> self]
Panicked(r) == "panic" \in DOMAIN r

\* ------------------------------------------------------------ utils/mod.rs
\* a count of the equal pairs wherever they are (filter for take_while)
common_prefix_size_counting_all(slice1, slice2) ==
    Cardinality({i \in 1..min2(Len(slice1), Len(slice2)) :
                    slice1[i] = slice2[i]})

\* count of the leading pairs that are equal (zip + take_while + count)
common_prefix_size(slice1, slice2) ==
    LET n == min2(Len(slice1), Len(slice2))
        mism == {i \in 1..n : slice1[i] # slice2[i]}
    IN  IF mism = {} THEN n ELSE SetMin(mism) - 1

\* a prefix and a suffix that are searched independently of each other
common_affix_sizes_independent(slice1, slice2) ==
    <<common_prefix_size(slice1, slice2),
      common_prefix_size([i \in 1..Len(slice1) |-> slice1[Len(slice1) + 1 - i]],
                         [i \in 1..Len(slice2) |-> slice2[Len(slice2) + 1 - i]])>>

\* a suffix search over min_len pairs, the counted prefix not excluded
common_affix_sizes_uncapped(slice1, slice2) ==
    LET min_len == min2(Len(slice1), Len(slice2))
        prefix == common_prefix_size(slice1, slice2)
        mism == {i \in 1..min_len :
                    slice1[Len(slice1) + 1 - i] # slice2[Len(slice2) + 1 - i]}
        suffix == IF mism = {} THEN min_len ELSE SetMin(mism) - 1
    IN  <<prefix, suffix>>

\* take(min_len - prefix) bounds the suffix search
common_affix_sizes(slice1, slice2) ==
    LET min_len == min2(Len(slice1), Len(slice2))
        prefix == common_prefix_size(slice1, slice2)
        k == min_len - prefix
        mism == {i \in 1..k :
                    slice1[Len(slice1) + 1 - i] # slice2[Len(slice2) + 1 - i]}
        suffix == IF mism = {} THEN k ELSE SetMin(mism) - 1
    IN  <<prefix, suffix>>

\* &slice[prefix .. len - postfix]
Trim(slice, prefix, postfix) == SubSeq(slice, prefix + 1, Len(slice) - postfix)

\* the range prefix .. len - postfix lies in the slice; if not, the slicing
\* panics (as does, in a debug build, a len - postfix below zero)
slice_in_range(slice, prefix, postfix) ==
    postfix <= Len(slice) /\ prefix <= Len(slice) - postfix

\* --------------------------------------------------------- utils/buffer.rs
\* A Buffer is its Vec: vec holds the elements [0, len), cap the capacity.
\* Memory at or beyond len is never read by the program and is not modelled.
VEC_MIN_NON_ZERO_CAP == 4

Buffer_with_capacity(cap) == [vec |-> <<>>, cap |-> cap]

\* a reserve of cap * 2 more elements, which is none for an empty allocation
Vec_reserve_doubling(cap) == cap * 2

\* buf.reserve(max(cap * 2, 1)) on a cleared Vec; capacity() afterwards
Vec_reserve(cap) == max2(max2(cap * 2, 1), VEC_MIN_NON_ZERO_CAP)

\* The loops of the program are modelled over a range lo .. hi - 1 of their
\* 0-based counter, from the state st the iteration lo starts in to the state
\* the iteration hi - 1 ends in: one iteration when the range holds one, and
\* otherwise the lower half of the range followed by the upper half.

\* the loop of Buffer::store over the items lo .. hi - 1; st is the Vec
RECURSIVE store_loop(_, _, _, _)
store_loop(items, lo, hi, st) ==
    IF hi <= lo THEN st
    ELSE IF hi = lo + 1
    THEN [vec |-> Append(st.vec, items[lo + 1]),
          cap |-> IF lo >= st.cap THEN Vec_reserve(st.cap) ELSE st.cap]
    ELSE LET half == store_loop(items, lo, (lo + hi) \div 2, st)
         IN  Strict(half.cap, store_loop(items, (lo + hi) \div 2, hi, half))

\* a store without the clear, which leaves a filled buffer as it is
Buffer_store_once(buf, items) ==
    IF Len(buf.vec) > 0 THEN buf
    ELSE store_loop(items, 0, Len(items), [vec |-> <<>>, cap |-> buf.cap])

\* Buffer::store: buf.clear(), then the items one by one
Buffer_store(buf, items) ==
    store_loop(items, 0, Len(items), [vec |-> <<>>, cap |-> buf.cap])

\* ----------------------------------------------------------- slice/leven.rs
LEVEN_DEFAULT_CAPACITY == 25

Levenshtein_new == [dists |-> Buffer_with_capacity(LEVEN_DEFAULT_CAPACITY + 1)]

\* a cell that charges a substitution even for equal elements
leven_cell_always_substitutes(dist, prev2, prev, x1, x2) ==
    min3(dist + 1, prev2 + 1, prev + 1)

\* a cell computed in u8, as the dist, prev and dists of leven/mod.rs: every
\* sum wraps at 2^8
leven_cell_u8(dist, prev2, prev, x1, x2) ==
    min3((dist + 1) % (2 ^ 8), (prev2 + 1) % (2 ^ 8),
         (prev + (IF x1 # x2 THEN 1 ELSE 0)) % (2 ^ 8))

\* one cell of the rolling row: min!(dist + 1, *prev2 + 1, prev + (x1 != x2))
leven_cell(dist, prev2, prev, x1, x2) ==
    min3(dist + 1, prev2 + 1, prev + (IF x1 # x2 THEN 1 ELSE 0))

\* inner loop over zip(slice2, dists), the columns lo .. hi - 1; st is dist,
\* prev and the row, and *prev2 is the row's element at the column
RECURSIVE leven_row(_, _, _, _, _)
leven_row(x1, slice2, lo, hi, st) ==
    IF hi <= lo THEN st
    ELSE IF hi = lo + 1
    THEN LET d == leven_cell(st.dist, st.dists[lo + 1], st.prev,
                             x1, slice2[lo + 1])
         IN  [dist |-> d, prev |-> st.dists[lo + 1],
              dists |-> [st.dists EXCEPT ![lo + 1] = d]]
    ELSE LET half == leven_row(x1, slice2, lo, (lo + hi) \div 2, st)
         IN  Strict(half.dist,
                    leven_row(x1, slice2, (lo + hi) \div 2, hi, half))

\* rows that start from i1 rather than i1 + 1: deleting at the first column
\* costs nothing
RECURSIVE leven_rows_free_first_column(_, _, _, _, _)
leven_rows_free_first_column(slice1, slice2, lo, hi, st) ==
    IF hi <= lo THEN st
    ELSE IF hi = lo + 1
    THEN leven_row(slice1[lo + 1], slice2, 0, min2(Len(slice2), Len(st.dists)),
                   [dist |-> lo, prev |-> lo, dists |-> st.dists])
    ELSE LET half == leven_rows_free_first_column(slice1, slice2, lo,
                                                  (lo + hi) \div 2, st)
         IN  Strict(half.dist, leven_rows_free_first_column(slice1, slice2,
                              (lo + hi) \div 2, hi, half))

\* outer loop over slice1, the rows lo .. hi - 1: dist = i1 + 1, prev = i1 and
\* the inner loop; st is dist and the row (and the last prev, never read)
RECURSIVE leven_rows(_, _, _, _, _)
leven_rows(slice1, slice2, lo, hi, st) ==
    IF hi <= lo THEN st
    ELSE IF hi = lo + 1
    THEN leven_row(slice1[lo + 1], slice2, 0, min2(Len(slice2), Len(st.dists)),
                   [dist |-> lo + 1, prev |-> lo, dists |-> st.dists])
    ELSE LET half == leven_rows(slice1, slice2, lo, (lo + hi) \div 2, st)
         IN  Strict(half.dist,
                    leven_rows(slice1, slice2, (lo + hi) \div 2, hi, half))

\* Levenshtein::distance is modelled in the order of its statements, each
\* step handing what it computed to the next: the result of a method is the
\* returned value and the engine as the call leaves it.

\* the return: dist, and the row as the loops left it
leven_return(r, stored) ==
    [ret |-> r.dist,
     self |-> [dists |-> [vec |-> r.dists, cap |-> stored.cap]]]

\* a dist that starts from 0 rather than from slice2.len()
leven_loops_from_zero(stored, t1, t2) ==
    leven_return(leven_rows(t1, t2, 0, Len(t1),
                            [dist |-> 0, prev |-> 0, dists |-> stored.vec]),
                 stored)

\* let mut dist = slice2.len(), then the loops over the trimmed slices
leven_loops(stored, t1, t2) ==
    leven_return(leven_rows(t1, t2, 0, Len(t1),
                            [dist |-> Len(t2), prev |-> 0, dists |-> stored.vec]),
                 stored)

\* the slices between the common prefix and the common postfix
leven_trimmed(stored, affix, slice1, slice2) ==
    IF slice_in_range(slice1, affix[1], affix[2])
          /\ slice_in_range(slice2, affix[1], affix[2])
    THEN leven_loops(stored, Trim(slice1, affix[1], affix[2]),
                     Trim(slice2, affix[1], affix[2]))
    ELSE Panic([dists |-> stored])

\* Levenshtein::distance: the row is stored for the untrimmed slice2
Levenshtein_distance(self, slice1, slice2) ==
    leven_trimmed(Buffer_store(self.dists, [i \in 1..(Len(slice2) + 1) |-> i]),
                  common_affix_sizes(slice1, slice2), slice1, slice2)

\* a distance relative to the length of the first slice alone
rel_dist_of_first_len(r, slice1, slice2) ==
    [ret |-> Rat(r.ret, max2(1, Len(slice1))), self |-> r.self]

\* dist as f64 / max!(1, slice1.len(), slice2.len()) as f64
rel_dist_of(r, slice1, slice2) ==
    IF Panicked(r) THEN r
    ELSE [ret |-> Rat(r.ret, max3(1, Len(slice1), Len(slice2))),
          self |-> r.self]

\* 1.0 - x
inverse_of(r) ==
    IF Panicked(r) THEN r
    ELSE [ret |-> RatSub(RatInt(1), r.ret), self |-> r.self]

Levenshtein_rel_dist(self, slice1, slice2) ==
    rel_dist_of(Levenshtein_distance(self, slice1, slice2), slice1, slice2)

Levenshtein_similarity(self, slice1, slice2) ==
    inverse_of(Levenshtein_rel_dist(self, slice1, slice2))

\* ------------------------------------------------ slice/matrix.rs DistMatrix
\* The file that defines DistMatrix is not among the sources; it is modelled
\* after the specification (a square table, sentinel row and column 0,
\* cell(1, j) = j - 1, cell(i, 1) = i - 1, growth re-initialising the border
\* only) and the shape of damlev/matrix.rs, with cells as wide as usize.
\* raw is held as its rows of size cells: the cell raw[i * size + j] of the
\* vector is raw[i + 1][j + 1] here.
DistMatrix_get(m, i, j) == m.raw[i + 1][j + 1]

DistMatrix_set(m, i, j, val) == [m EXCEPT !.raw[i + 1][j + 1] = val]

\* a vector is its elements from the moment it is built
DistMatrix_raw(m, raw) == Strict(raw, [m EXCEPT !.raw = raw])

DistMatrix_init(m) ==
    DistMatrix_raw(m, [r \in 1..m.size |-> [c \in 1..m.size |->
        LET i == r - 1
            j == c - 1
        IN  IF i = 0 \/ j = 0 THEN m.size
            ELSE IF j = 1 THEN i - 1
            ELSE IF i = 1 THEN j - 1
            ELSE m.raw[r][c]]])

DistMatrix_new(size) ==
    DistMatrix_init([size |-> size,
                     raw |-> [r \in 1..size |-> [c \in 1..size |-> 0]]])

\* a growth that builds the matrix anew
DistMatrix_grow_clearing(m, size) ==
    IF size <= m.size THEN m ELSE DistMatrix_new(size + size \div 2)

\* the vector is lengthened, so a cell keeps its place in the vector, not in
\* the table
DistMatrix_grow(m, size) ==
    IF size <= m.size THEN m
    ELSE LET size2 == size + size \div 2
         IN  DistMatrix_init([size |-> size2,
                 raw |-> [r \in 1..size2 |-> [c \in 1..size2 |->
                     LET k == (r - 1) * size2 + (c - 1)
                     IN  IF k < m.size * m.size
                         THEN m.raw[(k \div m.size) + 1][(k % m.size) + 1]
                         ELSE 0]]])

\* ---------------------------------------------------------- slice/damlev.rs
DAMLEV_DEFAULT_CAPACITY == 20

DamerauLevenshtein_new ==
    [dists |-> DistMatrix_new(DAMLEV_DEFAULT_CAPACITY + 2),
     last_i1 |-> <<>>]

\* a map in which no element is ever found
last_i1_get_missing(last_i1, x2) == 0

\* *last_i1.get(&x2).unwrap_or(&0); the BTreeMap is a function on its keys
last_i1_get(last_i1, x2) == IF x2 \in DOMAIN last_i1 THEN last_i1[x2] ELSE 0

\* last_i1.insert(x1, i1 + 1)
last_i1_insert(last_i1, x1, val) ==
    [k \in (DOMAIN last_i1) \cup {x1} |-> IF k = x1 THEN val ELSE last_i1[k]]

\* a transposition candidate for adjacent elements only, as in the optimal
\* string alignment distance
damlev_swap_adjacent_only(dists, l1, l2, i1, i2) ==
    IF i1 = l1 /\ i2 = l2 THEN DistMatrix_get(dists, l1, l2) + 1
    ELSE DistMatrix_get(dists, 0, 0)

\* the transposition candidate dists.get(l1, l2) + (i1 - l1) + (i2 - l2) + 1
damlev_swap(dists, l1, l2, i1, i2) ==
    DistMatrix_get(dists, l1, l2) + (i1 - l1) + (i2 - l2) + 1

\* a cell without the substitution candidate
damlev_cell_without_sub(dists, l1, l2, i1, i2, x1, x2) ==
    min4(DistMatrix_get(dists, i1 + 2, i2 + 1) + 1,
         DistMatrix_get(dists, i1 + 1, i2 + 2) + 1,
         DistMatrix_get(dists, i1 + 1, i2 + 1)
             + (IF x1 # x2 THEN DistMatrix_get(dists, 0, 0) ELSE 0),
         damlev_swap(dists, l1, l2, i1, i2))

\* a cell whose insertion candidate is read from the column i1 + 1
damlev_cell_add_from_row(dists, l1, l2, i1, i2, x1, x2) ==
    min4(DistMatrix_get(dists, i1 + 2, i1 + 1) + 1,
         DistMatrix_get(dists, i1 + 1, i2 + 2) + 1,
         DistMatrix_get(dists, i1 + 1, i2 + 1) + (IF x1 # x2 THEN 1 ELSE 0),
         damlev_swap(dists, l1, l2, i1, i2))

\* the value written to cell (i1 + 2, i2 + 2)
damlev_cell(dists, l1, l2, i1, i2, x1, x2) ==
    min4(DistMatrix_get(dists, i1 + 2, i2 + 1) + 1,
         DistMatrix_get(dists, i1 + 1, i2 + 2) + 1,
         DistMatrix_get(dists, i1 + 1, i2 + 1) + (IF x1 # x2 THEN 1 ELSE 0),
         damlev_swap(dists, l1, l2, i1, i2))

\* a write that is not shifted past the border
damlev_set_unshifted(dists, i1, i2, val) ==
    DistMatrix_set(dists, i1 + 1, i2 + 1, val)

\* dists.set(i1 + 2, i2 + 2, ...)
damlev_set(dists, i1, i2, val) == DistMatrix_set(dists, i1 + 2, i2 + 2, val)

\* inner loop over slice2, the columns lo .. hi - 1; st is the matrix and l2
RECURSIVE damlev_row(_, _, _, _, _, _, _)
damlev_row(last_i1, x1, i1, slice2, lo, hi, st) ==
    IF hi <= lo THEN st
    ELSE IF hi = lo + 1
    THEN [dists |-> damlev_set(st.dists, i1, lo,
                        damlev_cell(st.dists,
                                    last_i1_get(last_i1, slice2[lo + 1]),
                                    st.l2, i1, lo, x1, slice2[lo + 1])),
          l2 |-> IF x1 = slice2[lo + 1] THEN lo + 1 ELSE st.l2]
    ELSE LET half == damlev_row(last_i1, x1, i1, slice2, lo,
                                (lo + hi) \div 2, st)
         IN  Strict(half.l2, damlev_row(last_i1, x1, i1, slice2,
                                     (lo + hi) \div 2, hi, half))

\* outer loop over slice1, the rows lo .. hi - 1; st is the matrix and the map
RECURSIVE damlev_rows(_, _, _, _, _)
damlev_rows(slice1, slice2, lo, hi, st) ==
    IF hi <= lo THEN st
    ELSE IF hi = lo + 1
    THEN [dists |-> damlev_row(st.last_i1, slice1[lo + 1], lo, slice2, 0,
                               Len(slice2), [dists |-> st.dists, l2 |-> 0]).dists,
          last_i1 |-> last_i1_insert(st.last_i1, slice1[lo + 1], lo + 1)]
    ELSE LET half == damlev_rows(slice1, slice2, lo, (lo + hi) \div 2, st)
         IN  Strict(half.last_i1,
                    damlev_rows(slice1, slice2, (lo + hi) \div 2, hi, half))

\* a map that keeps the rows of the call before
last_i1_clear_keeping(last_i1) == last_i1

\* last_i1.clear()
last_i1_clear(last_i1) == <<>>

\* the return: dists.get(slice1.len() + 1, slice2.len() + 1)
damlev_return(r, len1, len2) ==
    [ret |-> DistMatrix_get(r.dists, len1 + 1, len2 + 1),
     self |-> [dists |-> r.dists, last_i1 |-> r.last_i1]]

\* a growth that leaves room for one row and one column of border only
damlev_grown_short(self, slice1, slice2) ==
    DistMatrix_grow(self.dists, max2(Len(slice1) + 1, Len(slice2) + 1))

\* dists.grow(max(slice1.len() + 2, slice2.len() + 2))
damlev_grown(self, slice1, slice2) ==
    DistMatrix_grow(self.dists, max2(Len(slice1) + 2, Len(slice2) + 2))

\* dists.grow, last_i1.clear and the loops
damlev_loops(self, slice1, slice2) ==
    damlev_return(damlev_rows(slice1, slice2, 0, Len(slice1),
                      [dists |-> damlev_grown(self, slice1, slice2),
                       last_i1 |-> last_i1_clear(self.last_i1)]),
                  Len(slice1), Len(slice2))

\* if slice2.len() < slice1.len() { swap(slice1, slice2) }
damlev_first(t1, t2) == IF Len(t2) < Len(t1) THEN t2 ELSE t1
damlev_second(t1, t2) == IF Len(t2) < Len(t1) THEN t1 ELSE t2

damlev_trimmed(self, t1, t2) ==
    damlev_loops(self, damlev_first(t1, t2), damlev_second(t1, t2))

damlev_affix(self, affix, slice1, slice2) ==
    IF slice_in_range(slice1, affix[1], affix[2])
          /\ slice_in_range(slice2, affix[1], affix[2])
    THEN damlev_trimmed(self, Trim(slice1, affix[1], affix[2]),
                        Trim(slice2, affix[1], affix[2]))
    ELSE Panic(self)

\* DamerauLevenshtein::distance
DamerauLevenshtein_distance(self, slice1, slice2) ==
    damlev_affix(self, common_affix_sizes(slice1, slice2), slice1, slice2)

DamerauLevenshtein_rel_dist(self, slice1, slice2) ==
    rel_dist_of(DamerauLevenshtein_distance(self, slice1, slice2),
                slice1, slice2)

DamerauLevenshtein_similarity(self, slice1, slice2) ==
    inverse_of(DamerauLevenshtein_rel_dist(self, slice1, slice2))

\* --------------------------------------------------------- slice/hamming.rs
None == "None"
Some(x) == <<"Some", x>>

IsSome(o) == o # None
Unwrap(o) == o[2]

\* zip(slice1, slice2).filter(|(x1, x2)| x1 != x2).count(), from 0-based
\* position i on
RECURSIVE hamming_count(_, _, _)
hamming_count(slice1, slice2, i) ==
    IF i >= Len(slice1) \/ i >= Len(slice2) THEN 0
    ELSE (IF slice1[i + 1] # slice2[i + 1] THEN 1 ELSE 0)
         + hamming_count(slice1, slice2, i + 1)

\* a distance that compares up to the shorter length
Hamming_distance_truncating(slice1, slice2) ==
    Some(hamming_count(slice1, slice2, 0))

\* Hamming::distance of the slice engine, which has no state
Hamming_distance(slice1, slice2) ==
    IF Len(slice1) # Len(slice2) THEN None
    ELSE Some(hamming_count(slice1, slice2, 0))

\* .map(|dist| dist as f64 / max(slice1.len(), 1) as f64)
Hamming_rel_dist(slice1, slice2) ==
    LET d == Hamming_distance(slice1, slice2)
    IN  IF IsSome(d) THEN Some(Rat(Unwrap(d), max2(Len(slice1), 1))) ELSE None

\* .map(|dist| 1.0 - dist)
Hamming_similarity(slice1, slice2) ==
    LET d == Hamming_rel_dist(slice1, slice2)
    IN  IF IsSome(d) THEN Some(RatSub(RatInt(1), Unwrap(d))) ELSE None

\* ----------------------------------------------------------- str/hamming.rs
StrHamming_new == [len |-> 0]

\* the loop over (chars1.next(), chars2.next()), from 0-based position i on
RECURSIVE str_hamming_loop(_, _, _, _, _, _)
str_hamming_loop(self, str1, str2, i, len, dist) ==
    IF i < Len(str1) /\ i < Len(str2)
    THEN str_hamming_loop(self, str1, str2, i + 1, len + 1,
                          IF str1[i + 1] # str2[i + 1] THEN dist + 1 ELSE dist)
    ELSE IF i >= Len(str1) /\ i >= Len(str2)
    THEN [ret |-> Some(dist), self |-> [len |-> len]]
    ELSE [ret |-> None, self |-> self]

StrHamming_distance(self, str1, str2) ==
    str_hamming_loop(self, str1, str2, 0, 0, 0)

\* None => None, Some(0) => Some(0.0), Some(dist) => dist / self.len.get()
StrHamming_rel_dist(self, str1, str2) ==
    LET r == StrHamming_distance(self, str1, str2)
    IN  IF ~IsSome(r.ret) THEN [ret |-> None, self |-> r.self]
        ELSE IF Unwrap(r.ret) = 0 THEN [ret |-> Some(RatInt(0)), self |-> r.self]
        ELSE [ret |-> Some(Rat(Unwrap(r.ret), r.self.len)), self |-> r.self]

StrHamming_similarity(self, str1, str2) ==
    LET r == StrHamming_rel_dist(self, str1, str2)
    IN  [ret |-> IF IsSome(r.ret) THEN Some(RatSub(RatInt(1), Unwrap(r.ret)))
                 ELSE None,
         self |-> r.self]

\* ------------------------------------------------------------ slice/jaro.rs
Jaro_new == [matches1 |-> <<>>, matches2 |-> <<>>]

\* a window that stops one element early on the right
get_range_short(i1, search_range, len2) ==
    <<i1 - min2(search_range, i1), min2(i1 + search_range, len2)>>

\* get_range: lo .. up as <<start, end>>
get_range(i1, search_range, len2) ==
    <<i1 - min2(search_range, i1), min2(i1 + search_range + 1, len2)>>

\* an inner loop that takes an equal element whether it is matched or not
jaro_find_any(x1, slice2, matches2, rng) ==
    LET cand == {j \in rng[1]..(rng[2] - 1) : x1 = slice2[j + 1]}
    IN  IF cand = {} THEN -1 ELSE SetMin(cand)

\* the inner loop: the first 0-based index in rng whose element of slice2 is
\* unmatched and equal to x1, or -1 when the loop ends without a break
jaro_find(x1, slice2, matches2, rng) ==
    LET cand == {j \in rng[1]..(rng[2] - 1) :
                    ~matches2[j + 1] /\ x1 = slice2[j + 1]}
    IN  IF cand = {} THEN -1 ELSE SetMin(cand)

\* a counter that never leaves the first position
jaro_next_i1_kept(i1) == i1

\* the value of i1 after an iteration whose window was not empty
jaro_next_i1(i1) == i1 + 1

\* the match loop over zip(slice1, matches1), from 0-based position k on;
\* i1 is the loop's own counter, which an empty window leaves as it is
RECURSIVE jaro_match(_, _, _, _, _, _, _, _)
jaro_match(slice1, slice2, k, i1, i2_range, matches1, matches2, matches) ==
    IF k >= Len(slice1)
    THEN [matches1 |-> matches1, matches2 |-> matches2, matches |-> matches]
    ELSE LET rng == get_range(i1, i2_range, Len(slice2))
         IN  IF rng[1] >= rng[2]
             THEN jaro_match(slice1, slice2, k + 1, i1, i2_range,
                             matches1, matches2, matches)
             ELSE LET j == jaro_find(slice1[k + 1], slice2, matches2, rng)
                  IN  IF j < 0
                      THEN jaro_match(slice1, slice2, k + 1, jaro_next_i1(i1),
                                      i2_range, matches1, matches2, matches)
                      ELSE jaro_match(slice1, slice2, k + 1, jaro_next_i1(i1),
                                      i2_range,
                                      [matches1 EXCEPT ![k + 1] = TRUE],
                                      [matches2 EXCEPT ![j + 1] = TRUE],
                                      matches + 1)

\* zip(slice, matches).filter_map(some_if): the flagged elements, in order
RECURSIVE jaro_matched(_, _, _)
jaro_matched(slice, matches, k) ==
    IF k >= min2(Len(slice), Len(matches)) THEN <<>>
    ELSE (IF matches[k + 1] THEN <<slice[k + 1]>> ELSE <<>>)
         \o jaro_matched(slice, matches, k + 1)

\* a count of transpositions rather than of differing positions
jaro_trans_halved(matched1, matched2) ==
    Cardinality({k \in 1..min2(Len(matched1), Len(matched2)) :
                    matched1[k] # matched2[k]}) \div 2

\* zip(matched1, matched2).filter(|(x1, x2)| x1 != x2).count()
jaro_trans(matched1, matched2) ==
    Cardinality({k \in 1..min2(Len(matched1), Len(matched2)) :
                    matched1[k] # matched2[k]})

\* (matches/len1 + matches/len2 + ((matches - trans/2.) / matches)) / 3.
jaro_score(matches, trans, len1, len2) ==
    RatDiv(RatAdd(RatAdd(Rat(matches, len1), Rat(matches, len2)),
                  RatDiv(RatSub(RatInt(matches), Rat(trans, 2)),
                         RatInt(matches))),
           RatInt(3))

\* a resize without the clear: the flags of the earlier call stay
jaro_reset_keeping(matches, len) ==
    [k \in 1..len |-> IF k <= Len(matches) THEN matches[k] ELSE FALSE]

\* matches.clear(); matches.resize(len, false)
jaro_reset(matches, len) == [k \in 1..len |-> FALSE]

\* jaro/mod.rs, the transposition scan by index, from the 0-based position i1
\* of word1 on: i2 moves on to the next flag of matches2 without a test
\* against its length; in_bounds is FALSE once that read is outside matches2
RECURSIVE jaro_scan(_, _, _, _, _, _)
jaro_scan(word1, word2, matches1, matches2, i1, st) ==
    IF i1 >= Len(word1) \/ ~st.in_bounds THEN st
    ELSE IF ~matches1[i1 + 1]
    THEN jaro_scan(word1, word2, matches1, matches2, i1 + 1, st)
    ELSE LET flagged == {j \in st.i2..(Len(matches2) - 1) : matches2[j + 1]}
         IN  IF flagged = {}
             THEN [st EXCEPT !.i2 = max2(st.i2, Len(matches2)),
                             !.in_bounds = FALSE]
             ELSE jaro_scan(word1, word2, matches1, matches2, i1 + 1,
                     [i2 |-> SetMin(flagged) + 1,
                      trans |-> st.trans
                          + (IF word1[i1 + 1] # word2[SetMin(flagged) + 1]
                             THEN 1 ELSE 0),
                      in_bounds |-> TRUE])

\* a window taken from the trimmed lengths
jaro_i2_range_trimmed(len1, len2, prefix) ==
    max3(1, len1 \div 2, len2 \div 2) - 1

\* i2_range: max!(1, (len1 + prefix) / 2, (len2 + prefix) / 2) - 1
jaro_i2_range(len1, len2, prefix) ==
    max3(1, (len1 + prefix) \div 2, (len2 + prefix) \div 2) - 1

\* the counts after the match loop m: prefix, matches, trans and the lengths
jaro_counted(prefix, t1, t2, m) ==
    [prefix |-> prefix, len1 |-> Len(t1), len2 |-> Len(t2),
     matches |-> m.matches,
     trans |-> IF m.matches # 0
               THEN jaro_trans(jaro_matched(t1, m.matches1, 0),
                               jaro_matched(t2, m.matches2, 0))
               ELSE 0,
     self |-> [matches1 |-> m.matches1, matches2 |-> m.matches2]]

\* the flags are reset and the match loop runs on the trimmed slices
jaro_trimmed(self, prefix, t1, t2) ==
    jaro_counted(prefix, t1, t2,
                 jaro_match(t1, t2, 0, 0,
                            jaro_i2_range(Len(t1), Len(t2), prefix),
                            jaro_reset(self.matches1, Len(t1)),
                            jaro_reset(self.matches2, Len(t2)), 0))

\* &slice1[prefix..], &slice2[prefix..]
jaro_prefixed(self, prefix, slice1, slice2) ==
    IF slice_in_range(slice1, prefix, 0) /\ slice_in_range(slice2, prefix, 0)
    THEN jaro_trimmed(self, prefix, SubSeq(slice1, prefix + 1, Len(slice1)),
                      SubSeq(slice2, prefix + 1, Len(slice2)))
    ELSE Panic(self)

\* Jaro::similarity past the early returns, up to the counts
jaro_counts(self, slice1, slice2) ==
    jaro_prefixed(self, common_prefix_size(slice1, slice2), slice1, slice2)

\* if prefix + matches == 0 { return 0.0; }, else the score
jaro_result(c) ==
    IF Panicked(c) THEN c
    ELSE IF c.prefix + c.matches = 0 THEN [ret |-> RatInt(0), self |-> c.self]
    ELSE [ret |-> jaro_score(c.prefix + c.matches, c.trans,
                             c.prefix + c.len1, c.prefix + c.len2),
          self |-> c.self]

\* Jaro::similarity
Jaro_similarity(self, slice1, slice2) ==
    IF Len(slice1) = 0 /\ Len(slice2) = 0 THEN [ret |-> RatInt(1), self |-> self]
    ELSE IF Len(slice1) = 0 \/ Len(slice2) = 0
    THEN [ret |-> RatInt(0), self |-> self]
    ELSE jaro_result(jaro_counts(self, slice1, slice2))

\* 1.0 - self.similarity(slice1, slice2)
Jaro_rel_dist(self, slice1, slice2) ==
    inverse_of(Jaro_similarity(self, slice1, slice2))

\* ---------------------------------------------------------- slice/jarwin.rs
MAX_PREFIX == 4
DEFAULT_SCALING == <<1, 10>>
\* a range of accepted factors that reaches up to 0.5
MAX_SCALING_LOOSE == <<1, 2>>
MAX_SCALING == <<1, 4>>
MIN_SCALING == <<0, 1>>

JaroWinkler_new == [scaling |-> DEFAULT_SCALING, jaro |-> Jaro_new]

\* a set_scaling that clamps the factor into the range and returns
JaroWinkler_set_scaling_clamping(self, scaling) ==
    [panic |-> FALSE,
     self |-> [self EXCEPT !.scaling =
                  IF RatLess(MAX_SCALING, scaling) THEN MAX_SCALING
                  ELSE IF RatLess(scaling, MIN_SCALING) THEN MIN_SCALING
                  ELSE scaling]]

\* JaroWinkler::set_scaling: it panics, or it stores the factor
JaroWinkler_set_scaling(self, scaling) ==
    IF RatLess(MAX_SCALING, scaling) THEN [panic |-> TRUE, self |-> self]
    ELSE IF RatLess(scaling, MIN_SCALING) THEN [panic |-> TRUE, self |-> self]
    ELSE [panic |-> FALSE, self |-> [self EXCEPT !.scaling = scaling]]

\* a prefix bonus that grows with the whole common prefix
jarwin_prefix_size_uncapped(slice1, slice2) ==
    common_prefix_size(slice1, slice2)

\* zip(slice1, slice2).take(MAX_PREFIX).take_while(eq).count()
jarwin_prefix_size(slice1, slice2) ==
    common_prefix_size(SubSeq(slice1, 1, min2(MAX_PREFIX, Len(slice1))),
                       SubSeq(slice2, 1, min2(MAX_PREFIX, Len(slice2))))

\* a boost that is not scaled by what is left to 1
jarwin_score_unscaled(jaro_dist, prefix_size, scaling) ==
    RatAdd(jaro_dist, RatMul(RatInt(prefix_size), scaling))

\* a prefix that lowers the score instead of raising it
jarwin_score_penalising(jaro_dist, prefix_size, scaling) ==
    RatSub(jaro_dist,
           RatMul(RatMul(RatInt(prefix_size), scaling),
                  RatSub(RatInt(1), jaro_dist)))

\* jaro_dist + prefix_size * self.scaling * (1. - jaro_dist)
jarwin_score(jaro_dist, prefix_size, scaling) ==
    RatAdd(jaro_dist,
           RatMul(RatMul(RatInt(prefix_size), scaling),
                  RatSub(RatInt(1), jaro_dist)))

\* after self.jaro.similarity returned j
jarwin_result(self, j, slice1, slice2) ==
    IF Panicked(j) THEN Panic([self EXCEPT !.jaro = j.self])
    ELSE [ret |-> IF j.ret = RatInt(0) THEN RatInt(0)
                  ELSE jarwin_score(j.ret, jarwin_prefix_size(slice1, slice2),
                                    self.scaling),
          self |-> [self EXCEPT !.jaro = j.self]]

\* JaroWinkler::similarity
JaroWinkler_similarity(self, slice1, slice2) ==
    jarwin_result(self, Jaro_similarity(self.jaro, slice1, slice2),
                  slice1, slice2)

\* 1.0 - self.similarity(slice1, slice2)
JaroWinkler_rel_dist(self, slice1, slice2) ==
    inverse_of(JaroWinkler_similarity(self, slice1, slice2))

\* -------------------------------------------------------------- str/*.rs
\* The text engines: each owns the slice engine and two Buffer<char>; a call
\* stores the characters of its arguments and hands the buffers on.
STR_LEVEN_DEFAULT_CAPACITY == 20
STR_DAMLEV_DEFAULT_CAPACITY == 20
STR_JARO_DEFAULT_CAPACITY == 25
STR_JARWIN_DEFAULT_CAPACITY == 25

StrEngine(sliced, cap) ==
    [sliced |-> sliced,
     buffer1 |-> Buffer_with_capacity(cap),
     buffer2 |-> Buffer_with_capacity(cap)]

StrLevenshtein_new == StrEngine(Levenshtein_new, STR_LEVEN_DEFAULT_CAPACITY)
StrDamerauLevenshtein_new ==
    StrEngine(DamerauLevenshtein_new, STR_DAMLEV_DEFAULT_CAPACITY)
StrJaro_new == StrEngine(Jaro_new, STR_JARO_DEFAULT_CAPACITY)
StrJaroWinkler_new == StrEngine(JaroWinkler_new, STR_JARWIN_DEFAULT_CAPACITY)

\* the text engine after its sliced engine returned r on the two buffers
StrReturn(r, buf1, buf2) ==
    IF Panicked(r)
    THEN Panic([sliced |-> r.self, buffer1 |-> buf1, buffer2 |-> buf2])
    ELSE [ret |-> r.ret,
          self |-> [sliced |-> r.self, buffer1 |-> buf1, buffer2 |-> buf2]]

\* Each method stores the characters of both arguments (the method) and then
\* calls the sliced engine on the two buffers (the method _on the buffers).
StrLevenshtein_distance_on(self, buf1, buf2) ==
    StrReturn(Levenshtein_distance(self.sliced, buf1.vec, buf2.vec), buf1, buf2)

StrLevenshtein_distance(self, str1, str2) ==
    StrLevenshtein_distance_on(self, Buffer_store(self.buffer1, str1),
                               Buffer_store(self.buffer2, str2))

StrLevenshtein_rel_dist_on(self, buf1, buf2) ==
    StrReturn(Levenshtein_rel_dist(self.sliced, buf1.vec, buf2.vec), buf1, buf2)

StrLevenshtein_rel_dist(self, str1, str2) ==
    StrLevenshtein_rel_dist_on(self, Buffer_store(self.buffer1, str1),
                               Buffer_store(self.buffer2, str2))

StrLevenshtein_similarity_on(self, buf1, buf2) ==
    StrReturn(Levenshtein_similarity(self.sliced, buf1.vec, buf2.vec), buf1, buf2)

StrLevenshtein_similarity(self, str1, str2) ==
    StrLevenshtein_similarity_on(self, Buffer_store(self.buffer1, str1),
                                 Buffer_store(self.buffer2, str2))

StrDamerauLevenshtein_distance_on(self, buf1, buf2) ==
    StrReturn(DamerauLevenshtein_distance(self.sliced, buf1.vec, buf2.vec), buf1, buf2)

StrDamerauLevenshtein_distance(self, str1, str2) ==
    StrDamerauLevenshtein_distance_on(self, Buffer_store(self.buffer1, str1),
                                      Buffer_store(self.buffer2, str2))

StrDamerauLevenshtein_rel_dist_on(self, buf1, buf2) ==
    StrReturn(DamerauLevenshtein_rel_dist(self.sliced, buf1.vec, buf2.vec), buf1, buf2)

StrDamerauLevenshtein_rel_dist(self, str1, str2) ==
    StrDamerauLevenshtein_rel_dist_on(self, Buffer_store(self.buffer1, str1),
                                      Buffer_store(self.buffer2, str2))

StrDamerauLevenshtein_similarity_on(self, buf1, buf2) ==
    StrReturn(DamerauLevenshtein_similarity(self.sliced, buf1.vec, buf2.vec), buf1, buf2)

StrDamerauLevenshtein_similarity(self, str1, str2) ==
    StrDamerauLevenshtein_similarity_on(self, Buffer_store(self.buffer1, str1),
                                        Buffer_store(self.buffer2, str2))

\* the text Jaro engine returns early on an empty argument, before storing
StrJaro_similarity_on(self, buf1, buf2) ==
    StrReturn(Jaro_similarity(self.sliced, buf1.vec, buf2.vec), buf1, buf2)

StrJaro_similarity(self, str1, str2) ==
    IF Len(str1) = 0 /\ Len(str2) = 0 THEN [ret |-> RatInt(1), self |-> self]
    ELSE IF Len(str1) = 0 \/ Len(str2) = 0
    THEN [ret |-> RatInt(0), self |-> self]
    ELSE StrJaro_similarity_on(self, Buffer_store(self.buffer1, str1),
                               Buffer_store(self.buffer2, str2))

StrJaro_rel_dist_on(self, buf1, buf2) ==
    StrReturn(Jaro_rel_dist(self.sliced, buf1.vec, buf2.vec), buf1, buf2)

StrJaro_rel_dist(self, str1, str2) ==
    IF Len(str1) = 0 /\ Len(str2) = 0 THEN [ret |-> RatInt(0), self |-> self]
    ELSE IF Len(str1) = 0 \/ Len(str2) = 0
    THEN [ret |-> RatInt(1), self |-> self]
    ELSE StrJaro_rel_dist_on(self, Buffer_store(self.buffer1, str1),
                             Buffer_store(self.buffer2, str2))

StrJaroWinkler_similarity_on(self, buf1, buf2) ==
    StrReturn(JaroWinkler_similarity(self.sliced, buf1.vec, buf2.vec), buf1, buf2)

StrJaroWinkler_similarity(self, str1, str2) ==
    StrJaroWinkler_similarity_on(self, Buffer_store(self.buffer1, str1),
                                 Buffer_store(self.buffer2, str2))

StrJaroWinkler_set_scaling(self, scaling) ==
    LET r == JaroWinkler_set_scaling(self.sliced, scaling)
    IN  [panic |-> r.panic, self |-> [self EXCEPT !.sliced = r.self]]

\* 1.0 - self.similarity(str1, str2)
StrJaroWinkler_rel_dist(self, str1, str2) ==
    inverse_of(StrJaroWinkler_similarity(self, str1, str2))

\* ------------------------------------------------------------ the program
\* One engine of one kind is constructed; its methods are then called.
\* failed: the last call panicked instead of returning
\* threads, mutex: the callers that share the engine and what synchronizes
\* them (SpecShared); a single caller elsewhere
VARIABLES kind, eng, op, in1, in2, scal_arg, ret, failed, ncalls,
          threads, mutex
vars == <<kind, eng, op, in1, in2, scal_arg, ret, failed, ncalls,
          threads, mutex>>

Kinds == {"Levenshtein", "DamerauLevenshtein", "Hamming", "SliceHamming",
          "Jaro", "JaroWinkler"}

SliceHamming_new == <<>>

New(k) ==
    CASE k = "Levenshtein" -> StrLevenshtein_new
      [] k = "DamerauLevenshtein" -> StrDamerauLevenshtein_new
      [] k = "Hamming" -> StrHamming_new
      [] k = "SliceHamming" -> SliceHamming_new
      [] k = "Jaro" -> StrJaro_new
      [] k = "JaroWinkler" -> StrJaroWinkler_new

\* an argument longer than every default capacity, so that the buffers, the
\* flags and the matrix have to grow
LongLen == LEVEN_DEFAULT_CAPACITY + 1
EngInputs == EngSeqs \cup {[i \in 1..LongLen |-> 1]}

\* arguments that share a stem longer than MAX_PREFIX
Stem == [i \in 1..(MAX_PREFIX + 1) |-> 1]
StemSeqs == {Stem \o t : t \in SeqsOver(1..NumSyms, MaxTail)}
PureInputs == SeqsOver(1..NumSyms, MaxLen) \cup BinarySeqs \cup StemSeqs

ScalingInputs == {<<-1, 10>>, <<0, 1>>, <<1, 4>>, <<3, 10>>}

\* no call has been made yet
NoCall ==
    /\ op = "new"
    /\ scal_arg = <<0, 1>>
    /\ ret = None
    /\ failed = FALSE
    /\ ncalls = 0

Constructed ==
    /\ kind \in Kinds
    /\ eng = New(kind)
    /\ threads = <<>>
    /\ mutex = "absent"
    /\ NoCall

Init == Constructed /\ in1 = <<>> /\ in2 = <<>>

\* The engines compare elements for equality only, so every pair of arguments
\* is a renaming of a pair whose first argument introduces its symbols in
\* increasing order; the single calls are drawn from those pairs.
FirstUse(s) ==
    \A i \in 1..Len(s) : \A x \in 1..(s[i] - 1) : \E j \in 1..(i - 1) : s[j] = x

InitPure ==
    /\ Constructed
    /\ in1 \in {s \in PureInputs : FirstUse(s)}
    /\ in2 \in PureInputs

\* a metric method returned r for the arguments a and b
Returned(method, a, b, r) ==
    /\ eng' = r.self
    /\ ret' = r.ret
    /\ failed' = Panicked(r)
    /\ op' = method
    /\ in1' = a
    /\ in2' = b
    /\ ncalls' = ncalls + 1
    /\ UNCHANGED <<kind, scal_arg, threads, mutex>>

LevDistance(a, b) ==
    /\ kind = "Levenshtein"
    /\ Returned("distance", a, b, StrLevenshtein_distance(eng, a, b))

LevRelDist(a, b) ==
    /\ kind = "Levenshtein"
    /\ Returned("rel_dist", a, b, StrLevenshtein_rel_dist(eng, a, b))

LevSimilarity(a, b) ==
    /\ kind = "Levenshtein"
    /\ Returned("similarity", a, b, StrLevenshtein_similarity(eng, a, b))

DamlevDistance(a, b) ==
    /\ kind = "DamerauLevenshtein"
    /\ Returned("distance", a, b, StrDamerauLevenshtein_distance(eng, a, b))

DamlevRelDist(a, b) ==
    /\ kind = "DamerauLevenshtein"
    /\ Returned("rel_dist", a, b, StrDamerauLevenshtein_rel_dist(eng, a, b))

DamlevSimilarity(a, b) ==
    /\ kind = "DamerauLevenshtein"
    /\ Returned("similarity", a, b, StrDamerauLevenshtein_similarity(eng, a, b))

HammingDistance(a, b) ==
    /\ kind = "Hamming"
    /\ Returned("distance", a, b, StrHamming_distance(eng, a, b))

HammingRelDist(a, b) ==
    /\ kind = "Hamming"
    /\ Returned("rel_dist", a, b, StrHamming_rel_dist(eng, a, b))

HammingSimilarity(a, b) ==
    /\ kind = "Hamming"
    /\ Returned("similarity", a, b, StrHamming_similarity(eng, a, b))

SliceHammingDistance(a, b) ==
    /\ kind = "SliceHamming"
    /\ Returned("distance", a, b, [ret |-> Hamming_distance(a, b), self |-> eng])

SliceHammingRelDist(a, b) ==
    /\ kind = "SliceHamming"
    /\ Returned("rel_dist", a, b, [ret |-> Hamming_rel_dist(a, b), self |-> eng])

SliceHammingSimilarity(a, b) ==
    /\ kind = "SliceHamming"
    /\ Returned("similarity", a, b,
                [ret |-> Hamming_similarity(a, b), self |-> eng])

JaroSimilarity(a, b) ==
    /\ kind = "Jaro"
    /\ Returned("similarity", a, b, StrJaro_similarity(eng, a, b))

JaroRelDist(a, b) ==
    /\ kind = "Jaro"
    /\ Returned("rel_dist", a, b, StrJaro_rel_dist(eng, a, b))

JarwinSimilarity(a, b) ==
    /\ kind = "JaroWinkler"
    /\ Returned("similarity", a, b, StrJaroWinkler_similarity(eng, a, b))

JarwinRelDist(a, b) ==
    /\ kind = "JaroWinkler"
    /\ Returned("rel_dist", a, b, StrJaroWinkler_rel_dist(eng, a, b))

\* set_scaling either panics or returns (); the engine survives a panic that
\* the caller catches
JarwinSetScaling(s) ==
    /\ kind = "JaroWinkler"
    /\ LET r == StrJaroWinkler_set_scaling(eng, s)
       IN  /\ eng' = r.self
           /\ ret' = IF r.panic THEN "panic" ELSE "unit"
           /\ failed' = r.panic
    /\ op' = "set_scaling"
    /\ scal_arg' = s
    /\ ncalls' = ncalls + 1
    /\ UNCHANGED <<kind, in1, in2, threads, mutex>>

\* any number of calls, up to MaxCalls, on the one engine
More == ncalls < MaxCalls

Next ==
    \/ \E a \in EngInputs, b \in EngInputs : More /\ LevDistance(a, b)
    \/ \E a \in EngInputs, b \in EngInputs : More /\ LevRelDist(a, b)
    \/ \E a \in EngInputs, b \in EngInputs : More /\ LevSimilarity(a, b)
    \/ \E a \in EngInputs, b \in EngInputs : More /\ DamlevDistance(a, b)
    \/ \E a \in EngInputs, b \in EngInputs : More /\ DamlevRelDist(a, b)
    \/ \E a \in EngInputs, b \in EngInputs : More /\ DamlevSimilarity(a, b)
    \/ \E a \in EngInputs, b \in EngInputs : More /\ HammingDistance(a, b)
    \/ \E a \in EngInputs, b \in EngInputs : More /\ HammingRelDist(a, b)
    \/ \E a \in EngInputs, b \in EngInputs : More /\ HammingSimilarity(a, b)
    \/ \E a \in EngInputs, b \in EngInputs : More /\ SliceHammingDistance(a, b)
    \/ \E a \in EngInputs, b \in EngInputs : More /\ SliceHammingRelDist(a, b)
    \/ \E a \in EngInputs, b \in EngInputs : More /\ SliceHammingSimilarity(a, b)
    \/ \E a \in EngInputs, b \in EngInputs : More /\ JaroSimilarity(a, b)
    \/ \E a \in EngInputs, b \in EngInputs : More /\ JaroRelDist(a, b)
    \/ \E a \in EngInputs, b \in EngInputs : More /\ JarwinSimilarity(a, b)
    \/ \E a \in EngInputs, b \in EngInputs : More /\ JarwinRelDist(a, b)
    \/ \E s \in ScalingInputs : More /\ JarwinSetScaling(s)

Spec == Init /\ [][Next]_vars

\* one metric call on a new engine, after at most one set_scaling
FirstCall == op = "new" \/ (op = "set_scaling" /\ ncalls = 1)

NextPure ==
    \/ FirstCall /\ LevDistance(in1, in2)
    \/ FirstCall /\ LevRelDist(in1, in2)
    \/ FirstCall /\ LevSimilarity(in1, in2)
    \/ FirstCall /\ DamlevDistance(in1, in2)
    \/ FirstCall /\ DamlevRelDist(in1, in2)
    \/ FirstCall /\ DamlevSimilarity(in1, in2)
    \/ FirstCall /\ HammingDistance(in1, in2)
    \/ FirstCall /\ HammingRelDist(in1, in2)
    \/ FirstCall /\ HammingSimilarity(in1, in2)
    \/ FirstCall /\ SliceHammingDistance(in1, in2)
    \/ FirstCall /\ SliceHammingRelDist(in1, in2)
    \/ FirstCall /\ SliceHammingSimilarity(in1, in2)
    \/ FirstCall /\ JaroSimilarity(in1, in2)
    \/ FirstCall /\ JaroRelDist(in1, in2)
    \/ FirstCall /\ JarwinSimilarity(in1, in2)
    \/ FirstCall /\ JarwinRelDist(in1, in2)
    \/ \E s \in ScalingInputs : op = "new" /\ JarwinSetScaling(s)

SpecPure == InitPure /\ [][NextPure]_vars

\* ------------------------------------------- calls that share one engine
\* Two callers hold a reference to one slice engine (which the compiler
\* admits across threads only through unsafe code, the engines being !Sync)
\* and call distance on it.  A call is the steps: it begins (the engine's
\* RefCells are borrowed, the row is stored or the matrix grown and the map
\* cleared, the arguments trimmed), it runs the rows of its outer loop one by
\* one, it returns.  With a mutex a caller begins only when no call is under
\* way.  Without one the check of the RefCell's borrow flag races with the
\* other caller: a call that begins during another one either sees the flag
\* and panics, or misses it and runs.
Threads == {1, 2}

Idle(a, b) ==
    [pc |-> "idle", slice1 |-> a, slice2 |-> b, t1 |-> <<>>, t2 |-> <<>>,
     i1 |-> 0, dist |-> 0, ret |-> 0, raced |-> FALSE]

InitShared ==
    /\ kind \in {"Levenshtein", "DamerauLevenshtein"}
    /\ eng = IF kind = "Levenshtein" THEN Levenshtein_new
             ELSE DamerauLevenshtein_new
    /\ mutex \in {"absent", "free"}
    /\ threads \in [Threads -> {Idle(a, b) : a \in SeqsOver(1..ShSyms, ShMaxLen),
                                             b \in SeqsOver(1..ShSyms, ShMaxLen)}]
    /\ NoCall
    /\ in1 = <<>>
    /\ in2 = <<>>

\* some call holds the mutable borrow of the engine's RefCells
borrowed == \E t \in Threads : threads[t].pc = "rows"

\* the trimmed slices; DamerauLevenshtein::distance puts the shorter first
shared_trimmed(k, a, b, affix) ==
    IF k = "Levenshtein"
    THEN <<Trim(a, affix[1], affix[2]), Trim(b, affix[1], affix[2])>>
    ELSE <<damlev_first(Trim(a, affix[1], affix[2]), Trim(b, affix[1], affix[2])),
           damlev_second(Trim(a, affix[1], affix[2]), Trim(b, affix[1], affix[2]))>>

\* the engine after the statements before the loops: dists.store(1 .. len + 2)
\* in Levenshtein, dists.grow and last_i1.clear in DamerauLevenshtein
shared_begin(k, e, b, tr) ==
    IF k = "Levenshtein"
    THEN [dists |-> Buffer_store(e.dists, [i \in 1..(Len(b) + 1) |-> i])]
    ELSE [dists |-> DistMatrix_grow(e.dists,
                        max2(Len(tr[1]) + 2, Len(tr[2]) + 2)),
          last_i1 |-> last_i1_clear(e.last_i1)]

\* the engine after one iteration of the outer loop on the element x1
shared_row(k, e, x1, i1, t2) ==
    IF k = "Levenshtein"
    THEN [dists |-> [vec |-> leven_row(x1, t2, 0,
                                 min2(Len(t2), Len(e.dists.vec)),
                                 [dist |-> i1 + 1, prev |-> i1,
                                  dists |-> e.dists.vec]).dists,
                     cap |-> e.dists.cap]]
    ELSE [dists |-> damlev_row(e.last_i1, x1, i1, t2, 0, Len(t2),
                               [dists |-> e.dists, l2 |-> 0]).dists,
          last_i1 |-> last_i1_insert(e.last_i1, x1, i1 + 1)]

SharedUnchanged == UNCHANGED <<kind, op, in1, in2, scal_arg, ret, failed, ncalls>>

\* caller t is past the statements before the loops, with the slices tr
Began(t, tr) ==
    /\ eng' = shared_begin(kind, eng, threads[t].slice2, tr)
    /\ threads' = [u \in Threads |->
          IF u = t
          THEN [threads[t] EXCEPT !.pc = "rows", !.t1 = tr[1], !.t2 = tr[2],
                                  !.i1 = 0, !.dist = Len(tr[2]),
                                  !.raced = borrowed]
          ELSE IF threads[u].pc = "rows"
          THEN [threads[u] EXCEPT !.raced = TRUE]
          ELSE threads[u]]

CallBegins(t) ==
    /\ threads[t].pc = "idle"
    /\ mutex # "held"
    /\ mutex' = IF mutex = "absent" THEN "absent" ELSE "held"
    /\ Began(t, shared_trimmed(kind, threads[t].slice1, threads[t].slice2,
                   common_affix_sizes(threads[t].slice1, threads[t].slice2)))
    /\ SharedUnchanged

\* borrow_mut finds the RefCell borrowed: "already borrowed"
BorrowPanics(t) ==
    /\ threads[t].pc = "idle"
    /\ mutex # "held"
    /\ borrowed
    /\ threads' = [threads EXCEPT ![t].pc = "panicked", ![t].raced = TRUE]
    /\ UNCHANGED <<eng, mutex>>
    /\ SharedUnchanged

\* one iteration of the outer loop of caller t
RowRuns(t) ==
    /\ threads[t].pc = "rows"
    /\ threads[t].i1 < Len(threads[t].t1)
    /\ eng' = shared_row(kind, eng, threads[t].t1[threads[t].i1 + 1],
                         threads[t].i1, threads[t].t2)
    /\ threads' = [threads EXCEPT
          ![t].i1 = @ + 1,
          ![t].dist = IF kind = "Levenshtein"
                      THEN leven_row(threads[t].t1[threads[t].i1 + 1],
                                     threads[t].t2, 0,
                                     min2(Len(threads[t].t2),
                                          Len(eng.dists.vec)),
                                     [dist |-> threads[t].i1 + 1,
                                      prev |-> threads[t].i1,
                                      dists |-> eng.dists.vec]).dist
                      ELSE @]
    /\ UNCHANGED mutex
    /\ SharedUnchanged

\* the loop is over: dist, or dists.get(slice1.len() + 1, slice2.len() + 1);
\* the borrows end and the caller releases the mutex it holds
CallReturns(t) ==
    /\ threads[t].pc = "rows"
    /\ threads[t].i1 >= Len(threads[t].t1)
    /\ threads' = [threads EXCEPT
          ![t].pc = "done",
          ![t].ret = IF kind = "Levenshtein" THEN threads[t].dist
                     ELSE DistMatrix_get(eng.dists, Len(threads[t].t1) + 1,
                                         Len(threads[t].t2) + 1)]
    /\ mutex' = IF mutex = "held" THEN "free" ELSE mutex
    /\ UNCHANGED eng
    /\ SharedUnchanged

NextShared ==
    \/ \E t \in Threads : CallBegins(t)
    \/ \E t \in Threads : BorrowPanics(t)
    \/ \E t \in Threads : RowRuns(t)
    \/ \E t \in Threads : CallReturns(t)

SpecShared == InitShared /\ [][NextShared]_vars

\* ------------------------------------------------- tests::growth, widened
\* One distance call on a new engine for two arguments of one length that
\* share no element: every pair of short ones over two disjoint alphabets,
\* and the all-1 and all-2 vectors of the growth tests at lengths that no
\* 8-bit counter holds.
GrowthPairs ==
    {p \in SeqsOver({1, 2}, MaxLen + 1) \X SeqsOver({3, 4}, MaxLen + 1) :
        Len(p[1]) = Len(p[2])}
    \cup {<<[i \in 1..len |-> 1], [i \in 1..len |-> 2]>> :
             len \in {WideLen, GrowthLen}}

InitWide ==
    /\ Constructed
    /\ kind \in {"Levenshtein", "DamerauLevenshtein"}
    /\ \E p \in GrowthPairs : in1 = p[1] /\ in2 = p[2]

NextWide ==
    \/ FirstCall /\ LevDistance(in1, in2)
    \/ FirstCall /\ DamlevDistance(in1, in2)

SpecWide == InitWide /\ [][NextWide]_vars

\* ------------------------------------------------- a Buffer and its stores
\* A Buffer is built with some capacity and store is called on it, up to
\* MaxCalls times, with every short sequence and with the first elements of
\* a cycle, as capacity_regress takes them from "abcdefg".
InitBuffer ==
    /\ kind = "Buffer"
    /\ eng \in {Buffer_with_capacity(cap) : cap \in 0..BufMaxCap}
    /\ threads = <<>>
    /\ mutex = "absent"
    /\ NoCall
    /\ in1 = <<>>
    /\ in2 = <<>>

\* buf.store(items)
BufferStore(items) ==
    /\ kind = "Buffer"
    /\ eng' = Buffer_store(eng, items)
    /\ op' = "store"
    /\ in1' = items
    /\ ncalls' = ncalls + 1
    /\ UNCHANGED <<kind, in2, scal_arg, ret, failed, threads, mutex>>

NextBuffer ==
    \/ \E items \in SeqsOver(1..EngSyms, MaxLen) : More /\ BufferStore(items)
    \/ \E len \in 0..BufMaxLen :
          More /\ BufferStore([i \in 1..len |-> ((i - 1) % NumSyms) + 1])

SpecBuffer == InitBuffer /\ [][NextBuffer]_vars

\* ============================================================ the claims
\* ----------------------------------------------- reference definitions
\* The edit distance by its defining recursion on the two sequences from
\* 1-based positions i and j on: what is left of one when the other is used
\* up; otherwise the cheapest of a deletion, an insertion and a substitution
\* (free when the heads are equal).
RECURSIVE EditFrom(_, _, _, _)
EditFrom(a, b, i, j) ==
    IF i > Len(a) THEN Len(b) - j + 1
    ELSE IF j > Len(b) THEN Len(a) - i + 1
    ELSE IF a[i] = b[j] THEN EditFrom(a, b, i + 1, j + 1)
    ELSE 1 + min3(EditFrom(a, b, i + 1, j),
                  EditFrom(a, b, i, j + 1),
                  EditFrom(a, b, i + 1, j + 1))

EditDistance(a, b) == EditFrom(a, b, 1, 1)

\* The unrestricted Damerau-Levenshtein distance, by the table of distances
\* between prefixes: T[i + 1][j + 1] is the distance of the first i elements
\* of a and the first j of b.  A transposition may pair a[k], a[i] with
\* b[l], b[j] for ANY earlier k and l with a[k] = b[j] and a[i] = b[l]; the
\* elements between are deleted and inserted.
TransCosts(T, a, b, i, j) ==
    {T[k][l] + (i - k - 1) + 1 + (j - l - 1) :
        <<k, l>> \in {p \in (1..(i - 1)) \X (1..(j - 1)) :
                        a[p[1]] = b[j] /\ a[i] = b[p[2]]}}

TrueDamlevCell(T, cur, a, b, i, j) ==
    IF i = 0 THEN j
    ELSE IF j = 0 THEN i
    ELSE SetMin({T[i][j + 1] + 1, cur[j] + 1,
                 T[i][j] + (IF a[i] = b[j] THEN 0 ELSE 1)}
                \cup TransCosts(T, a, b, i, j))

RECURSIVE TrueDamlevRow(_, _, _, _, _, _)
TrueDamlevRow(T, cur, a, b, i, j) ==
    IF j > Len(b) THEN cur
    ELSE LET c == TrueDamlevCell(T, cur, a, b, i, j)
         IN  Strict(c, TrueDamlevRow(T, Append(cur, c), a, b, i, j + 1))

RECURSIVE TrueDamlevRows(_, _, _, _)
TrueDamlevRows(T, a, b, i) ==
    IF i > Len(a) THEN T
    ELSE LET row == TrueDamlevRow(T, <<>>, a, b, i, 0)
         IN  Strict(row, TrueDamlevRows(Append(T, row), a, b, i + 1))

TrueDamlev(a, b) == TrueDamlevRows(<<>>, a, b, 0)[Len(a) + 1][Len(b) + 1]

\* The optimal string alignment distance: a transposition only of two
\* adjacent elements that stay adjacent.
OsaCell(T, cur, a, b, i, j) ==
    IF i = 0 THEN j
    ELSE IF j = 0 THEN i
    ELSE SetMin({T[i][j + 1] + 1, cur[j] + 1,
                 T[i][j] + (IF a[i] = b[j] THEN 0 ELSE 1)}
                \cup (IF i > 1 /\ j > 1 /\ a[i] = b[j - 1] /\ a[i - 1] = b[j]
                      THEN {T[i - 1][j - 1] + 1} ELSE {}))

RECURSIVE OsaRow(_, _, _, _, _, _)
OsaRow(T, cur, a, b, i, j) ==
    IF j > Len(b) THEN cur
    ELSE LET c == OsaCell(T, cur, a, b, i, j)
         IN  Strict(c, OsaRow(T, Append(cur, c), a, b, i, j + 1))

RECURSIVE OsaRows(_, _, _, _)
OsaRows(T, a, b, i) ==
    IF i > Len(a) THEN T
    ELSE LET row == OsaRow(T, <<>>, a, b, i, 0)
         IN  Strict(row, OsaRows(Append(T, row), a, b, i + 1))

Osa(a, b) == OsaRows(<<>>, a, b, 0)[Len(a) + 1][Len(b) + 1]

IsCall(k, method) == kind = k /\ op = method

\* C1: the distance a Levenshtein engine returns is the edit distance of its
\* two arguments: the least number of insertions, deletions and
\* substitutions that turn the first into the second.
C1_LevenshteinIsEditDistance ==
    IsCall("Levenshtein", "distance") => ret = EditDistance(in1, in2)

\* a call whose answer takes all three kinds of edit after trimming
C1_Witness ==
    /\ IsCall("Levenshtein", "distance")
    /\ in1 = <<1, 2, 1>> /\ in2 = <<2, 3>> /\ ret = 2

\* C2: the distance a Damerau-Levenshtein engine returns is the unrestricted
\* Damerau-Levenshtein distance of its arguments, in which the two elements
\* of a transposition may be separated by further edits; it is not the
\* optimal string alignment distance.
C2_DamlevIsTrueDistance ==
    IsCall("DamerauLevenshtein", "distance") => ret = TrueDamlev(in1, in2)

\* "ca" against "abc" (written with c = 1, a = 2, b = 3): 2, where the
\* optimal string alignment distance is 3
C2_Witness ==
    /\ IsCall("DamerauLevenshtein", "distance")
    /\ in1 = <<1, 2>> /\ in2 = <<2, 3, 1>>
    /\ ret = 2 /\ Osa(in1, in2) = 3

\* The Jaro score by its definition, on the whole arguments: the window of the
\* element at position i of a is the positions within w of i in b.
JaroWindow(la, lb) == max3(1, la \div 2, lb \div 2) - 1

\* the pairs <<i, j>> made by scanning a from position i on; used is the set
\* of positions of b that are already paired
RECURSIVE JaroPairs(_, _, _, _, _)
JaroPairs(a, b, w, i, used) ==
    IF i > Len(a) THEN {}
    ELSE LET cand == {j \in max2(1, i - w)..min2(Len(b), i + w) :
                         j \notin used /\ b[j] = a[i]}
         IN  IF cand = {} THEN JaroPairs(a, b, w, i + 1, used)
             ELSE {<<i, SetMin(cand)>>}
                  \cup JaroPairs(a, b, w, i + 1, used \cup {SetMin(cand)})

\* the k-th smallest member of a set of positions
Kth(S, k) == CHOOSE x \in S : Cardinality({y \in S : y < x}) = k - 1

JaroRef(a, b) ==
    IF Len(a) = 0 /\ Len(b) = 0 THEN <<1, 1>>
    ELSE IF Len(a) = 0 \/ Len(b) = 0 THEN <<0, 1>>
    ELSE LET pairs == JaroPairs(a, b, JaroWindow(Len(a), Len(b)), 1, {})
             m == Cardinality(pairs)
             in_a == {p[1] : p \in pairs}
             in_b == {p[2] : p \in pairs}
             t == Cardinality({k \in 1..m : a[Kth(in_a, k)] # b[Kth(in_b, k)]})
         IN  IF m = 0 THEN <<0, 1>>
             ELSE Rat(2 * m * m * Len(b) + 2 * m * m * Len(a)
                        + (2 * m - t) * Len(a) * Len(b),
                      6 * m * Len(a) * Len(b))

CommonPrefixLen(a, b) ==
    CHOOSE k \in 0..min2(Len(a), Len(b)) :
        /\ \A i \in 1..k : a[i] = b[i]
        /\ k < min2(Len(a), Len(b)) => a[k + 1] # b[k + 1]

\* jaro + p * scaling * (1 - jaro) as one fraction
WinklerRef(jaro, p, scaling) ==
    Rat(jaro[1] * scaling[2] + p * scaling[1] * (jaro[2] - jaro[1]),
        jaro[2] * scaling[2])

\* C4: Jaro-Winkler similarity(a, b) is 0 whenever the Jaro similarity of a
\* and b is 0, and otherwise jaro + p * scaling * (1 - jaro), where p is the
\* length of the common prefix capped at 4 elements and scaling is the
\* engine's factor; a longer common prefix adds nothing.
C4_JaroWinklerIsDefinition ==
    IsCall("JaroWinkler", "similarity") =>
        ret = IF JaroRef(in1, in2) = <<0, 1>> THEN <<0, 1>>
              ELSE WinklerRef(JaroRef(in1, in2),
                              min2(4, CommonPrefixLen(in1, in2)),
                              eng.sliced.scaling)

\* a common prefix of five elements counts as four: 8/9 + 4/10 * 1/9
C4_Witness ==
    /\ IsCall("JaroWinkler", "similarity")
    /\ CommonPrefixLen(in1, in2) = 5
    /\ eng.sliced.scaling = <<1, 10>>
    /\ JaroRef(in1, in2) = <<8, 9>>
    /\ ret = <<14, 15>>

\* the positions at which two sequences of one length differ
Mismatches(a, b) == {i \in 1..Len(a) : a[i] # b[i]}

HammingRef(a, b) ==
    IF Len(a) # Len(b) THEN None ELSE Some(Cardinality(Mismatches(a, b)))

\* C5: Hamming distance(a, b), of the slice engine and of the text engine
\* alike, returns None if and only if the lengths differ, and Some(k) with k
\* the number of positions i with a[i] # b[i] when they are equal; a length
\* mismatch is a returned None, never a panic.
C5_HammingDefinedness ==
    (IsCall("SliceHamming", "distance") \/ IsCall("Hamming", "distance")) =>
        /\ ret = HammingRef(in1, in2)
        /\ (ret = None) <=> (Len(in1) # Len(in2))
        /\ ret # "panic"

\* the shorter argument is a prefix of the longer one, and the result is None
C5_Witness ==
    /\ IsCall("SliceHamming", "distance")
    /\ in1 = <<1, 2>>
    /\ in2 = <<1, 2, 3>>
    /\ ret = None

\* s = <<n, d>> with d > 0 lies outside [0, 1/4]
OutOfRange(s) == s[1] < 0 \/ 4 * s[1] > s[2]

\* the step is a call of the Jaro-Winkler engine's method
JarwinStep(method) == kind = "JaroWinkler" /\ ncalls' # ncalls /\ op' = method

\* C6: set_scaling(s) with s < 0.0 or s > 0.25 panics at that call and stores
\* nothing, clamped or not: the engine's scaling factor stays what it was.
\* With 0.0 <= s <= 0.25 the call returns and stores s. No other call changes
\* the factor, a similarity call computes with the factor stored before it and
\* does not panic, and a newly constructed engine has the factor 0.1.
C6_SetScalingStep ==
    /\ JarwinStep("set_scaling") =>
          IF OutOfRange(scal_arg')
          THEN ret' = "panic" /\ eng'.sliced.scaling = eng.sliced.scaling
          ELSE ret' = "unit" /\ eng'.sliced.scaling = scal_arg'
    /\ (kind = "JaroWinkler" /\ op' # "set_scaling") =>
          eng'.sliced.scaling = eng.sliced.scaling
    /\ JarwinStep("similarity") =>
          /\ ret' # "panic"
          /\ ret' = IF JaroRef(in1', in2') = <<0, 1>> THEN <<0, 1>>
                    ELSE WinklerRef(JaroRef(in1', in2'),
                                    min2(4, CommonPrefixLen(in1', in2')),
                                    eng.sliced.scaling)
    /\ (kind = "JaroWinkler" /\ op = "new") => eng.sliced.scaling = <<1, 10>>

C6_SetScalingPanicsOrStores == [][C6_SetScalingStep]_vars

\* 0.25 was stored, then set_scaling(0.3) panicked and 0.25 is still there
C6_Witness ==
    /\ IsCall("JaroWinkler", "set_scaling")
    /\ scal_arg = <<3, 10>>
    /\ ret = "panic"
    /\ eng.sliced.scaling = <<1, 4>>

Methods == {"distance", "rel_dist", "similarity"}

\* what the method of an engine e of kind k returns for (a, b)
Call(k, method, e, a, b) ==
    CASE k = "Levenshtein" /\ method = "distance" ->
            StrLevenshtein_distance(e, a, b).ret
      [] k = "Levenshtein" /\ method = "rel_dist" ->
            StrLevenshtein_rel_dist(e, a, b).ret
      [] k = "Levenshtein" /\ method = "similarity" ->
            StrLevenshtein_similarity(e, a, b).ret
      [] k = "DamerauLevenshtein" /\ method = "distance" ->
            StrDamerauLevenshtein_distance(e, a, b).ret
      [] k = "DamerauLevenshtein" /\ method = "rel_dist" ->
            StrDamerauLevenshtein_rel_dist(e, a, b).ret
      [] k = "DamerauLevenshtein" /\ method = "similarity" ->
            StrDamerauLevenshtein_similarity(e, a, b).ret
      [] k = "Hamming" /\ method = "distance" -> StrHamming_distance(e, a, b).ret
      [] k = "Hamming" /\ method = "rel_dist" -> StrHamming_rel_dist(e, a, b).ret
      [] k = "Hamming" /\ method = "similarity" ->
            StrHamming_similarity(e, a, b).ret
      [] k = "SliceHamming" /\ method = "distance" -> Hamming_distance(a, b)
      [] k = "SliceHamming" /\ method = "rel_dist" -> Hamming_rel_dist(a, b)
      [] k = "SliceHamming" /\ method = "similarity" -> Hamming_similarity(a, b)
      [] k = "Jaro" /\ method = "similarity" -> StrJaro_similarity(e, a, b).ret
      [] k = "Jaro" /\ method = "rel_dist" -> StrJaro_rel_dist(e, a, b).ret
      [] k = "JaroWinkler" /\ method = "similarity" ->
            StrJaroWinkler_similarity(e, a, b).ret
      [] k = "JaroWinkler" /\ method = "rel_dist" ->
            StrJaroWinkler_rel_dist(e, a, b).ret

\* a newly constructed engine of the current kind, configured as the current
\* one is: the scaling factor is configuration, not scratch state
Fresh ==
    IF kind = "JaroWinkler"
    THEN [StrJaroWinkler_new EXCEPT !.sliced.scaling = eng.sliced.scaling]
    ELSE New(kind)

\* C7: whatever calls an engine has served, with arguments that grew or
\* shrank from call to call, each distance, similarity or rel_dist call
\* returns what a newly constructed engine returns for the same arguments:
\* the row buffer, the matrix, the match flags, the stored length and the
\* last-occurrence map of earlier calls do not reach a later result.
C7_ReuseIsFresh ==
    op \in Methods => ret = Call(kind, op, Fresh, in1, in2)

\* a second call, with short arguments that need a transposition, on an
\* engine whose matrix an earlier call has grown
C7_Witness ==
    /\ IsCall("DamerauLevenshtein", "distance")
    /\ ncalls = 2
    /\ eng.sliced.dists.size > DAMLEV_DEFAULT_CAPACITY + 2
    /\ in1 = <<1, 2>>
    /\ in2 = <<2, 1>>
    /\ ret = 1

\* C8: distance is symmetric for Levenshtein, Damerau-Levenshtein and Hamming:
\* the call returns what a new engine returns for the arguments in the other
\* order, None in both orders when the lengths differ.
C8_DistanceSymmetric ==
    (op = "distance"
        /\ kind \in {"Levenshtein", "DamerauLevenshtein", "Hamming",
                     "SliceHamming"}) =>
        /\ ret = Call(kind, "distance", New(kind), in2, in1)
        /\ (kind \in {"Hamming", "SliceHamming"} /\ Len(in1) # Len(in2)) =>
              ret = None /\ Call(kind, "distance", New(kind), in2, in1) = None

\* arguments of different lengths with nothing to trim
C8_Witness ==
    /\ IsCall("Levenshtein", "distance")
    /\ in1 = <<1, 2>>
    /\ in2 = <<2, 3, 1>>
    /\ ret = 3
    /\ Call(kind, "distance", New(kind), in2, in1) = 3

\* the total match count and the transposition count of a Jaro call on a new
\* engine
JaroCounts(a, b) ==
    LET c == jaro_counts(Jaro_new, a, b)
    IN  <<c.prefix + c.matches, c.trans>>

\* C9: similarity is symmetric for Jaro and Jaro-Winkler: the call returns
\* what a new engine returns for the arguments in the other order, and the
\* matching gives the same match count and the same transposition count
\* whichever argument is scanned first.
C9_SimilaritySymmetric ==
    (op = "similarity" /\ kind \in {"Jaro", "JaroWinkler"}) =>
        /\ ret = Call(kind, "similarity", Fresh, in2, in1)
        /\ (Len(in1) > 0 /\ Len(in2) > 0) =>
              JaroCounts(in1, in2) = JaroCounts(in2, in1)

\* arguments of different lengths with two crossing matches: m = 3, t = 2
C9_Witness ==
    /\ IsCall("Jaro", "similarity")
    /\ in1 = <<1, 2, 1>>
    /\ in2 = <<2, 1, 1, 1>>
    /\ JaroCounts(in1, in2) = <<3, 2>>
    /\ ret = <<29, 36>>

\* C10: for every sequence a, the empty one included, Levenshtein and
\* Damerau-Levenshtein distance(a, a) is 0, Hamming distance(a, a) is Some(0),
\* and Jaro and Jaro-Winkler similarity(a, a) is 1.0.
C10_Identity ==
    in1 = in2 =>
        /\ (op = "distance" /\ kind \in {"Levenshtein", "DamerauLevenshtein"})
              => ret = 0
        /\ (op = "distance" /\ kind \in {"Hamming", "SliceHamming"})
              => ret = Some(0)
        /\ (op = "similarity" /\ kind \in {"Jaro", "JaroWinkler"})
              => ret = <<1, 1>>

\* a Jaro-Winkler call on equal arguments with a prefix bonus to add
C10_Witness ==
    /\ IsCall("JaroWinkler", "similarity")
    /\ in1 = <<1, 2, 1>>
    /\ in2 = in1
    /\ eng.sliced.scaling = <<1, 4>>
    /\ ret = <<1, 1>>

\* C11: for all sequences a and b the Levenshtein and the Damerau-Levenshtein
\* distance lie between |len(a) - len(b)| and max(len(a), len(b)); when one
\* of the two is empty the distance is the length of the other.
C11_DistanceBounds ==
    (op = "distance" /\ kind \in {"Levenshtein", "DamerauLevenshtein"}) =>
        /\ Abs(Len(in1) - Len(in2)) <= ret
        /\ ret <= max2(Len(in1), Len(in2))
        /\ in1 = <<>> => ret = Len(in2)
        /\ in2 = <<>> => ret = Len(in1)

\* an empty first argument: the loops do not run and the distance is the
\* length of the second
C11_Witness ==
    /\ IsCall("Levenshtein", "distance")
    /\ in1 = <<>>
    /\ in2 = <<1, 2, 1>>
    /\ ret = 3

\* b is a with two adjacent elements, which are distinct, swapped
AdjacentSwap(a, b) ==
    \E i \in 1..(Len(a) - 1) :
        /\ a[i] # a[i + 1]
        /\ b = [a EXCEPT ![i] = a[i + 1], ![i + 1] = a[i]]

\* C12: transposition economy: when b is a with two adjacent distinct elements
\* swapped, the Damerau-Levenshtein distance of a and b is 1 and their
\* Levenshtein distance is 2.
C12_TranspositionEconomy ==
    AdjacentSwap(in1, in2) =>
        /\ IsCall("DamerauLevenshtein", "distance") => ret = 1
        /\ IsCall("Levenshtein", "distance") => ret = 2
        /\ op = "distance" =>
              /\ Call("DamerauLevenshtein", "distance",
                      New("DamerauLevenshtein"), in1, in2) = 1
              /\ Call("Levenshtein", "distance",
                      New("Levenshtein"), in1, in2) = 2

\* the swap is in the middle of what is left after trimming nothing
C12_Witness ==
    /\ IsCall("DamerauLevenshtein", "distance")
    /\ in1 = <<1, 2, 3>>
    /\ in2 = <<2, 1, 3>>
    /\ AdjacentSwap(in1, in2)
    /\ ret = 1
    /\ Call("Levenshtein", "distance", New("Levenshtein"), in1, in2) = 2

\* the region of s left between a common prefix and suffix of sizes affix
Region(s, affix) == SubSeq(s, affix[1] + 1, Len(s) - affix[2])

\* the loops of the two engines on the full arguments, nothing trimmed
LevenUntrimmed(a, b) ==
    leven_loops(Buffer_store(Levenshtein_new.dists,
                             [i \in 1..(Len(b) + 1) |-> i]), a, b).ret
DamlevUntrimmed(a, b) == damlev_trimmed(DamerauLevenshtein_new, a, b).ret

\* C13: affix trimming never changes the distance: the Levenshtein and the
\* Damerau-Levenshtein distance of the regions left after removing the common
\* prefix and the common suffix that common_affix_sizes reports equal the
\* distance of the full sequences, as the engines compute them and by the
\* definitions of the two distances.
C13_TrimmingKeepsDistance ==
    /\ IsCall("Levenshtein", "distance") =>
          /\ ret = LevenUntrimmed(in1, in2)
          /\ EditDistance(Region(in1, common_affix_sizes(in1, in2)),
                          Region(in2, common_affix_sizes(in1, in2)))
                = EditDistance(in1, in2)
    /\ IsCall("DamerauLevenshtein", "distance") =>
          /\ ret = DamlevUntrimmed(in1, in2)
          /\ TrueDamlev(Region(in1, common_affix_sizes(in1, in2)),
                        Region(in2, common_affix_sizes(in1, in2)))
                = TrueDamlev(in1, in2)

\* a prefix and a suffix are trimmed on either side of a transposition
C13_Witness ==
    /\ IsCall("DamerauLevenshtein", "distance")
    /\ in1 = <<1, 2, 1, 1>>
    /\ in2 = <<1, 1, 2, 1>>
    /\ common_affix_sizes(in1, in2) = <<1, 1>>
    /\ ret = 1

Reverse(s) == [i \in 1..Len(s) |-> s[Len(s) + 1 - i]]
Drop(s, n) == SubSeq(s, n + 1, Len(s))

\* C14: common_affix_sizes(a, b) returns (p, s) with p the length of the
\* longest common prefix and s the length of the longest common suffix of what
\* remains of a and b after that prefix, so s <= min(len(a), len(b)) - p and
\* p + s <= min(len(a), len(b)); for equal sequences it returns (len, 0), and
\* the result for (b, a) is the same.
C14_AffixSizes ==
    /\ common_affix_sizes(in1, in2)[1] = CommonPrefixLen(in1, in2)
    /\ common_affix_sizes(in1, in2)[2] =
          CommonPrefixLen(Reverse(Drop(in1, CommonPrefixLen(in1, in2))),
                          Reverse(Drop(in2, CommonPrefixLen(in1, in2))))
    /\ common_affix_sizes(in1, in2)[1] + common_affix_sizes(in1, in2)[2]
          <= min2(Len(in1), Len(in2))
    /\ in1 = in2 => common_affix_sizes(in1, in2) = <<Len(in1), 0>>
    /\ common_affix_sizes(in2, in1) = common_affix_sizes(in1, in2)

\* the shorter argument is both a prefix and a suffix of the longer one: the
\* suffix search has nothing left to count
C14_Witness ==
    /\ IsCall("Levenshtein", "distance")
    /\ in1 = <<1, 2, 1>>
    /\ in2 = <<1>>
    /\ common_affix_sizes(in1, in2) = <<1, 0>>
    /\ ret = 2

\* comparisons of f64 values as fractions with positive denominators
RatLeq(x, y) == x[1] * y[2] <= y[1] * x[2]
InUnit(x) == x[2] > 0 /\ 0 <= x[1] /\ x[1] <= x[2]
\* x is the quotient n / d
IsQuotient(x, n, d) == x[2] > 0 /\ d # 0 /\ x[1] * d = n * x[2]
\* x is 1 - y
IsInverse(x, y) == x[2] > 0 /\ x[1] * y[2] = (y[2] - y[1]) * x[2]

EditKinds == {"Levenshtein", "DamerauLevenshtein"}
HammingKinds == {"Hamming", "SliceHamming"}

\* C15: for Levenshtein, Damerau-Levenshtein and Hamming, rel_dist(a, b) is
\* distance(a, b) / max(1, len(a), len(b)), a value in [0, 1] that is 0 for two
\* empty sequences (nothing is divided by zero), and similarity(a, b) is
\* 1 - rel_dist(a, b); for Hamming, rel_dist and similarity are None exactly
\* when distance is None, and Some of these values when the lengths match.
C15_RelDistAndSimilarity ==
    /\ (op = "rel_dist" /\ kind \in EditKinds) =>
          /\ IsQuotient(ret, Call(kind, "distance", New(kind), in1, in2),
                        max3(1, Len(in1), Len(in2)))
          /\ InUnit(ret)
          /\ (in1 = <<>> /\ in2 = <<>>) => ret = <<0, 1>>
    /\ (op = "similarity" /\ kind \in EditKinds) =>
          /\ IsInverse(ret, Call(kind, "rel_dist", New(kind), in1, in2))
          /\ InUnit(ret)
    /\ (op = "rel_dist" /\ kind \in HammingKinds) =>
          /\ ret = None <=> Call(kind, "distance", New(kind), in1, in2) = None
          /\ ret = None <=> Len(in1) # Len(in2)
          /\ ret # None =>
                /\ IsQuotient(Unwrap(ret),
                       Unwrap(Call(kind, "distance", New(kind), in1, in2)),
                       max3(1, Len(in1), Len(in2)))
                /\ InUnit(Unwrap(ret))
                /\ in1 = <<>> => Unwrap(ret) = <<0, 1>>
    /\ (op = "similarity" /\ kind \in HammingKinds) =>
          /\ ret = None <=> Call(kind, "distance", New(kind), in1, in2) = None
          /\ ret # None =>
                /\ IsInverse(Unwrap(ret),
                       Unwrap(Call(kind, "rel_dist", New(kind), in1, in2)))
                /\ InUnit(Unwrap(ret))

\* two edits over the longer length 3: rel_dist 2/3, similarity 1/3
C15_Witness ==
    /\ IsCall("Levenshtein", "similarity")
    /\ in1 = <<1, 2, 1>>
    /\ in2 = <<2, 3>>
    /\ Call(kind, "rel_dist", New(kind), in1, in2) = <<2, 3>>
    /\ ret = <<1, 3>>

\* C16: for all sequences and every scaling factor that set_scaling accepts,
\* the Jaro and the Jaro-Winkler similarity lie in [0, 1]: the transposition
\* count never exceeds the match count, the total match count never exceeds
\* min(len(a), len(b)), and the prefix bonus length times the scaling factor
\* never exceeds 1.
C16_SimilarityInUnit ==
    (op = "similarity" /\ kind \in {"Jaro", "JaroWinkler"}) =>
        /\ InUnit(ret)
        /\ (Len(in1) > 0 /\ Len(in2) > 0) =>
              /\ JaroCounts(in1, in2)[2] <= JaroCounts(in1, in2)[1]
              /\ JaroCounts(in1, in2)[1] <= min2(Len(in1), Len(in2))
        /\ kind = "JaroWinkler" =>
              /\ RatLeq(RatMul(RatInt(jarwin_prefix_size(in1, in2)),
                               eng.sliced.scaling), RatInt(1))
              /\ RatLeq(RatInt(0), eng.sliced.scaling)

\* the largest bonus: four common leading elements at the factor 0.25 lift a
\* Jaro score below 1 to exactly 1
C16_Witness ==
    /\ IsCall("JaroWinkler", "similarity")
    /\ eng.sliced.scaling = <<1, 4>>
    /\ jarwin_prefix_size(in1, in2) = 4
    /\ in1 # in2
    /\ RatLess(JaroRef(in1, in2), RatInt(1))
    /\ ret = <<1, 1>>

\* a new Jaro-Winkler engine on which set_scaling(s) has been called
Scaled(s) == StrJaroWinkler_set_scaling(StrJaroWinkler_new, s).self
\* the factors that set_scaling accepts, among those tried and the default
Accepted ==
    {s \in ScalingInputs \cup {DEFAULT_SCALING} :
        ~StrJaroWinkler_set_scaling(StrJaroWinkler_new, s).panic}

\* C17: Jaro-Winkler monotonicity: for a pair of sequences with a nonzero Jaro
\* score and a nonzero common prefix, and accepted scaling factors s1 <= s2,
\* the similarity computed with s2 is never smaller than the one computed
\* with s1.
C17_ScalingMonotone ==
    (IsCall("JaroWinkler", "similarity")
        /\ JaroRef(in1, in2) # <<0, 1>> /\ CommonPrefixLen(in1, in2) > 0) =>
        \A s \in Accepted :
            /\ RatLeq(s, eng.sliced.scaling) =>
                  RatLeq(Call(kind, "similarity", Scaled(s), in1, in2), ret)
            /\ RatLeq(eng.sliced.scaling, s) =>
                  RatLeq(ret, Call(kind, "similarity", Scaled(s), in1, in2))

\* a pair whose score grows with each of the three factors 0 < 0.1 < 0.25
C17_Witness ==
    /\ IsCall("JaroWinkler", "similarity")
    /\ eng.sliced.scaling = <<1, 10>>
    /\ in1 = <<1, 2, 1>>
    /\ in2 = <<1, 3>>
    /\ RatLess(Call(kind, "similarity", Scaled(<<0, 1>>), in1, in2), ret)
    /\ RatLess(ret, Call(kind, "similarity", Scaled(<<1, 4>>), in1, in2))

\* a finite f64: neither a NaN nor an infinity
Finite(x) == x[2] > 0

\* the value a method of an engine of kind k may return
Defined(k, method, r) ==
    IF k \in HammingKinds
    THEN r = None \/ (IF method = "distance" THEN Unwrap(r) \in Nat
                      ELSE Finite(Unwrap(r)))
    ELSE IF method = "distance" THEN r \in Nat ELSE Finite(r)

\* the cells (i, j) with i <= rows and j <= cols lie inside the matrix
MatrixHolds(m, rows, cols) ==
    /\ Len(m.raw) = m.size
    /\ \A r \in 1..m.size : Len(m.raw[r]) = m.size
    /\ rows < m.size /\ cols < m.size

\* what the engine's storage holds after a call on (a, b) is inside what was
\* allocated for it
StorageInBounds(k, e, a, b) ==
    /\ k \in {"Levenshtein", "DamerauLevenshtein", "Jaro", "JaroWinkler"} =>
          /\ Len(e.buffer1.vec) <= e.buffer1.cap
          /\ Len(e.buffer2.vec) <= e.buffer2.cap
    /\ k = "Levenshtein" =>
          /\ Len(e.sliced.dists.vec) <= e.sliced.dists.cap
          /\ Len(Region(b, common_affix_sizes(a, b))) <= Len(e.sliced.dists.vec)
    /\ k = "DamerauLevenshtein" =>
          MatrixHolds(e.sliced.dists,
                      Len(Region(a, common_affix_sizes(a, b))) + 1,
                      Len(Region(b, common_affix_sizes(a, b))) + 1)

\* C18: no distance, similarity or rel_dist call fails, whatever the two
\* sequences, empty ones included: the trimmed region is a range of each
\* argument (prefix <= len - suffix), nothing is divided by zero (every f64
\* returned is finite), nothing is addressed outside what is allocated; the
\* value is a number, or None from Hamming, and the only call that can fail
\* is set_scaling.
C18_NoCallFails ==
    /\ failed => op = "set_scaling"
    /\ op \in Methods =>
          /\ ~failed
          /\ slice_in_range(in1, common_affix_sizes(in1, in2)[1],
                            common_affix_sizes(in1, in2)[2])
          /\ slice_in_range(in2, common_affix_sizes(in1, in2)[1],
                            common_affix_sizes(in1, in2)[2])
          /\ Defined(kind, op, ret)
          /\ StorageInBounds(kind, eng, in1, in2)

\* the second argument is a prefix and a suffix of the first, and the call
\* returns
C18_Witness ==
    /\ IsCall("DamerauLevenshtein", "distance")
    /\ in1 = <<1, 1>>
    /\ in2 = <<1>>
    /\ ~failed
    /\ ret = 1

\* what distance returns for (a, b) on an engine that serves no other call
Sequential(k, a, b) ==
    IF k = "Levenshtein" THEN Levenshtein_distance(Levenshtein_new, a, b).ret
    ELSE DamerauLevenshtein_distance(DamerauLevenshtein_new, a, b).ret

Disjoint(a, b) ==
    {a[i] : i \in 1..Len(a)} \cap {b[j] : j \in 1..Len(b)} = {}

\* the row a Levenshtein engine keeps after a call on two disjoint sequences
\* of length n: the last row of the table, n in every column
LastRowWide(vec, n) ==
    /\ Len(vec) >= n
    /\ \A j \in 1..n : vec[j] = n

\* the matrix a Damerau-Levenshtein engine keeps after such a call: the
\* sentinels hold the size, which exceeds every distance, and the cell of the
\* prefixes of lengths i and j holds max(i, j)
MatrixWide(m, n) ==
    /\ m.size > n + 1
    /\ \A i \in 0..(n + 1), j \in 0..(n + 1) :
          DistMatrix_get(m, i, j) =
              IF i = 0 \/ j = 0 THEN m.size ELSE max2(i - 1, j - 1)

CapAtWrite(cap, items, i) ==
    store_loop(items, 0, i + 1, [vec |-> <<>>, cap |-> cap]).cap

\* C21: after Buffer::store(items) the buffer's length is the number of items
\* and its contents are the items in order, whatever it held before and
\* whatever its capacity was; a store never lowers the capacity, and every
\* element is written at an index strictly below the capacity at the time
\* of the write.
C21_StoreKeepsItems ==
    [][op' = "store" =>
          /\ Len(eng'.vec) = Len(in1')
          /\ eng'.vec = in1'
          /\ eng'.cap >= eng.cap
          /\ Len(eng'.vec) <= eng'.cap
          /\ \A i \in 0..(Len(in1') - 1) : i < CapAtWrite(eng.cap, in1', i)]_vars

\* a buffer built with no capacity that grew to 16 for nine items and now
\* holds the one item of a later store
C21_Witness ==
    /\ kind = "Buffer"
    /\ op = "store"
    /\ ncalls = MaxCalls
    /\ eng.cap = 16
    /\ eng.vec = <<2>>
    /\ in1 = <<2>>

\* the backing storage holds side x side cells
Square(m) ==
    /\ Len(m.raw) = m.size
    /\ \A r \in 1..m.size : Len(m.raw[r]) = m.size

\* the border as init leaves it: the sentinel in row 0 and column 0,
\* cell(1, j) = j - 1 and cell(i, 1) = i - 1
BorderValid(m) ==
    \A i \in 0..(m.size - 1) :
        /\ DistMatrix_get(m, i, 0) = m.size
        /\ DistMatrix_get(m, 0, i) = m.size
        /\ i >= 1 => /\ DistMatrix_get(m, i, 1) = i - 1
                     /\ DistMatrix_get(m, 1, i) = i - 1

\* the cell at the index k of the backing vector
FlatCell(m, k) == DistMatrix_get(m, k \div m.size, k % m.size)

\* the index k of a vector of side x side cells lies in rows 0-1 or columns
\* 0-1
IsBorder(side, k) == k \div side <= 1 \/ k % side <= 1

\* g is what grow(n) makes of m
Grown(m, n, g) ==
    /\ g.size >= n
    /\ g.size >= m.size
    /\ n <= m.size => g = m
    /\ Square(g)
    /\ BorderValid(g)
    /\ \A k \in 0..(g.size * g.size - 1) :
          ~IsBorder(g.size, k) =>
             FlatCell(g, k) = IF k < m.size * m.size THEN FlatCell(m, k) ELSE 0

\* the sides asked of a matrix of side size: below it, it, and past it
GrowSizes(size) == {size - 1, size, size + 1}

UntrimmedPairs(a, b) == JaroPairs(a, b, JaroWindow(Len(a), Len(b)), 1, {})

UntrimmedTrans(a, b) ==
    Cardinality({k \in 1..Cardinality(UntrimmedPairs(a, b)) :
        a[Kth({p[1] : p \in UntrimmedPairs(a, b)}, k)]
            # b[Kth({p[2] : p \in UntrimmedPairs(a, b)}, k)]})

\* the positions of an argument that count as matched: its common prefix and
\* the flagged positions of the trimmed slice
Flagged(matches, prefix) ==
    (1..prefix) \cup {prefix + k : k \in {x \in 1..Len(matches) : matches[x]}}

\* C23: trimming the common prefix before the Jaro match pass does not change
\* the result.  For every pair of non-empty sequences the total match count
\* prefix + matches and the transposition count are those of the same greedy
\* matching and in-order transposition count on the untrimmed sequences, the
\* matched positions of both arguments are the same, and every element of the
\* prefix is paired there with its own position, so never counted as
\* transposed.
C23_PrefixTrimKeepsCounts ==
    (kind = "Jaro" /\ op \in {"similarity", "rel_dist"}
        /\ Len(in1) > 0 /\ Len(in2) > 0) =>
       /\ JaroCounts(in1, in2)[1] = Cardinality(UntrimmedPairs(in1, in2))
       /\ JaroCounts(in1, in2)[2] = UntrimmedTrans(in1, in2)
       /\ Flagged(eng.sliced.matches1, common_prefix_size(in1, in2))
             = {p[1] : p \in UntrimmedPairs(in1, in2)}
       /\ Flagged(eng.sliced.matches2, common_prefix_size(in1, in2))
             = {p[2] : p \in UntrimmedPairs(in1, in2)}
       /\ \A i \in 1..common_prefix_size(in1, in2) :
             <<i, i>> \in UntrimmedPairs(in1, in2)

\* a prefix of one element, then two elements that match across the window
\* of the untrimmed lengths: three matches, two of them transposed
C23_Witness ==
    /\ IsCall("Jaro", "similarity")
    /\ in1 = <<1, 1, 2, 1>>
    /\ in2 = <<1, 2, 1, 2>>
    /\ common_prefix_size(in1, in2) = 1
    /\ jaro_i2_range(3, 3, 1) = 1
    /\ JaroCounts(in1, in2) = <<3, 2>>
    /\ eng.sliced.matches1 = <<TRUE, TRUE, FALSE>>

\* the value the match loop's counter i1 holds when it reaches the element
\* of 0-based position k of the trimmed first sequence: an iteration whose
\* window is empty leaves the counter as it is
RECURSIVE LoopI1(_, _, _)
LoopI1(k, w, len2) ==
    IF k = 0 THEN 0
    ELSE IF get_range(LoopI1(k - 1, w, len2), w, len2)[1]
               >= get_range(LoopI1(k - 1, w, len2), w, len2)[2]
         THEN LoopI1(k - 1, w, len2)
         ELSE jaro_next_i1(LoopI1(k - 1, w, len2))

\* the 0-based positions of the trimmed second sequence that the loop takes
\* for the element of position k
Compared(k, w, len2) ==
    get_range(LoopI1(k, w, len2), w, len2)[1]
        ..(get_range(LoopI1(k, w, len2), w, len2)[2] - 1)

Trimmed(a, b) == SubSeq(a, common_prefix_size(a, b) + 1, Len(a))

\* C24: the Jaro search window is max(1, len(a)/2, len(b)/2) - 1 with the
\* original lengths, and the element of position k of the trimmed first
\* sequence is compared only against the positions max(0, k - window) ..
\* min(k + window, rem2 - 1) of the trimmed second one, for every k in
\* increasing order, the k's after an iteration with an empty window
\* included; the flags the call leaves are those of the greedy matching that
\* looks at exactly these positions.
C24_WindowFollowsPosition ==
    (kind = "Jaro" /\ op \in {"similarity", "rel_dist"}
        /\ Len(in1) > 0 /\ Len(in2) > 0) =>
       LET t1 == Trimmed(in1, in2)
           t2 == Trimmed(in2, in1)
           w  == jaro_i2_range(Len(t1), Len(t2), common_prefix_size(in1, in2))
       IN  /\ w = max3(1, Len(in1) \div 2, Len(in2) \div 2) - 1
           /\ \A k \in 0..(Len(t1) - 1) :
                 Compared(k, w, Len(t2))
                     = max2(0, k - w)..min2(k + w, Len(t2) - 1)
           /\ {k \in 1..Len(t1) : eng.sliced.matches1[k]}
                 = {p[1] : p \in JaroPairs(t1, t2, w, 1, {})}
           /\ {k \in 1..Len(t2) : eng.sliced.matches2[k]}
                 = {p[2] : p \in JaroPairs(t1, t2, w, 1, {})}

\* three elements against one with a window of 0: the window of position 1
\* is empty, the counter stays at 1 for position 2, whose window is empty too
C24_Witness ==
    /\ IsCall("Jaro", "similarity")
    /\ in1 = <<1, 1, 2>>
    /\ in2 = <<2>>
    /\ jaro_i2_range(3, 1, 0) = 0
    /\ Compared(0, 0, 1) = {0}
    /\ Compared(1, 0, 1) = {}
    /\ LoopI1(2, 0, 1) = 1
    /\ Compared(2, 0, 1) = {}
    /\ eng.sliced.matches1 = <<FALSE, FALSE, FALSE>>

\* the two slices the Damerau-Levenshtein loops run on: the arguments without
\* their common affixes, the shorter one first
DamlevFirst(a, b) ==
    damlev_first(Region(a, common_affix_sizes(a, b)),
                 Region(b, common_affix_sizes(a, b)))
DamlevSecond(a, b) ==
    damlev_second(Region(a, common_affix_sizes(a, b)),
                  Region(b, common_affix_sizes(a, b)))

\* the last of the first n positions of s that holds x, 0 when none does
LastAt(s, n, x) ==
    IF \E i \in 1..n : s[i] = x
    THEN CHOOSE i \in 1..n : s[i] = x /\ \A j \in 1..n : s[j] = x => j <= i
    ELSE 0

\* the map last_i1 when the outer loop has finished n rows
LastRows(s, n) == [x \in {s[i] : i \in 1..n} |-> LastAt(s, n, x)]

\* the cell (r, c) is a border cell, or the call has written it before it
\* comes to the cell (i1 + 2, i2 + 2)
WrittenBefore(i1, i2, len2, r, c) ==
    \/ r <= 1
    \/ c <= 1
    \/ 2 <= r /\ r < i1 + 2 /\ 2 <= c /\ c <= len2 + 1
    \/ r = i1 + 2 /\ 2 <= c /\ c < i2 + 2

\* the matrix with v in every cell outside rows 0-1 and columns 0-1
Poisoned(m, v) ==
    [m EXCEPT !.raw = [r \in 1..m.size |-> [c \in 1..m.size |->
        IF r <= 2 \/ c <= 2 THEN m.raw[r][c] ELSE v]]]

PoisonValues == {0, 1, 99}

FourCandidates(m, s1, s2, i1, i2, add_col) ==
    min4(DistMatrix_get(m, i1 + 1, i2 + 2) + 1,
         DistMatrix_get(m, i1 + 2, add_col) + 1,
         DistMatrix_get(m, i1 + 1, i2 + 1)
             + (IF s1[i1 + 1] # s2[i2 + 1] THEN 1 ELSE 0),
         DistMatrix_get(m, last_i1_get(LastRows(s1, i1), s2[i2 + 1]),
                           LastAt(s2, i2, s1[i1 + 1]))
             + (i1 - last_i1_get(LastRows(s1, i1), s2[i2 + 1]))
             + (i2 - LastAt(s2, i2, s1[i1 + 1])) + 1)

\* C26 (as the code has it): in Damerau-Levenshtein distance the cell
\* (i1 + 2, i2 + 2) is the minimum of cost_del = cell(i1 + 1, i2 + 2) + 1,
\* cost_add = cell(i1 + 2, i2 + 1) + 1, cost_sub = cell(i1 + 1, i2 + 1) +
\* (1 if seq1[i1] != seq2[i2] else 0) and cost_swap = cell(l1, l2) + (i1 - l1)
\* + (i2 - l2) + 1, with l1 the last-row entry recorded for seq2[i2] (0 if
\* none) and l2 the last match column of the current row before this column;
\* the distance returned is cell(len1 + 1, len2 + 1).
C26_CellIsMinOfFour ==
    (kind = "DamerauLevenshtein" /\ op \in Methods) =>
       /\ \A i1 \in 0..(Len(DamlevFirst(in1, in2)) - 1),
             i2 \in 0..(Len(DamlevSecond(in1, in2)) - 1) :
             DistMatrix_get(eng.sliced.dists, i1 + 2, i2 + 2)
                 = FourCandidates(eng.sliced.dists, DamlevFirst(in1, in2),
                                  DamlevSecond(in1, in2), i1, i2, i2 + 1)
       /\ op = "distance" =>
             ret = DistMatrix_get(eng.sliced.dists,
                                  Len(DamlevFirst(in1, in2)) + 1,
                                  Len(DamlevSecond(in1, in2)) + 1)

\* C26 as it is stated, with cost_add = cell(i1 + 2, i1 + 1) + 1: the
\* insertion candidate read from the column i1 + 1, whatever the column i2 is
C26_AddFromRowColumn ==
    (kind = "DamerauLevenshtein" /\ op \in Methods) =>
       /\ \A i1 \in 0..(Len(DamlevFirst(in1, in2)) - 1),
             i2 \in 0..(Len(DamlevSecond(in1, in2)) - 1) :
             DistMatrix_get(eng.sliced.dists, i1 + 2, i2 + 2)
                 = FourCandidates(eng.sliced.dists, DamlevFirst(in1, in2),
                                  DamlevSecond(in1, in2), i1, i2, i1 + 1)
       /\ op = "distance" =>
             ret = DistMatrix_get(eng.sliced.dists,
                                  Len(DamlevFirst(in1, in2)) + 1,
                                  Len(DamlevSecond(in1, in2)) + 1)

\* one element against three others: the cell (2, 4) is 3 by the insertion
\* candidate of the column to its left; the look-back cell is the sentinel,
\* and the column i1 + 1 = 1 would give 2
C26_Witness ==
    /\ IsCall("DamerauLevenshtein", "distance")
    /\ in1 = <<1>>
    /\ in2 = <<2, 3, 3>>
    /\ ret = 3
    /\ DistMatrix_get(eng.sliced.dists, 2, 4) = 3
    /\ DistMatrix_get(eng.sliced.dists, 2, 3) + 1 = 3
    /\ DistMatrix_get(eng.sliced.dists, 1, 4) + 1 = 4
    /\ DistMatrix_get(eng.sliced.dists, 1, 3) + 1 = 3
    /\ DistMatrix_get(eng.sliced.dists, 0, 0) + 0 + 2 + 1 > 3
    /\ FourCandidates(eng.sliced.dists, in1, in2, 0, 2, 3) = 3
    /\ DistMatrix_get(eng.sliced.dists, 2, 1) + 1 = 2
    /\ FourCandidates(eng.sliced.dists, in1, in2, 0, 2, 1) = 2

\* the distances new slice engines return
DamlevOf(a, b) == DamerauLevenshtein_distance(DamerauLevenshtein_new, a, b).ret
LevenOf(a, b) == Levenshtein_distance(Levenshtein_new, a, b).ret
HammingOf(a, b) == Unwrap(Hamming_distance(a, b))

\* C27: the engines are ordered: for all sequences a and b the
\* Damerau-Levenshtein distance is at most the Levenshtein distance, and for
\* a and b of equal length the Levenshtein distance is at most the Hamming
\* distance; so is what a call of either engine returns, compared with the
\* other engines on the same arguments.
C27_EnginesOrdered ==
    /\ DamlevOf(in1, in2) <= LevenOf(in1, in2)
    /\ Len(in1) = Len(in2) => LevenOf(in1, in2) <= HammingOf(in1, in2)
    /\ IsCall("DamerauLevenshtein", "distance") => ret <= LevenOf(in1, in2)
    /\ IsCall("Levenshtein", "distance") =>
          /\ DamlevOf(in1, in2) <= ret
          /\ Len(in1) = Len(in2) => ret <= HammingOf(in1, in2)
    /\ (op = "distance" /\ kind \in HammingKinds /\ Len(in1) = Len(in2)) =>
          LevenOf(in1, in2) <= Unwrap(ret)

\* two transpositions: 2 edits with them, 3 without, 4 positions that differ
C27_Witness ==
    /\ IsCall("Levenshtein", "distance")
    /\ in1 = <<1, 2, 2, 1>>
    /\ in2 = <<2, 1, 1, 2>>
    /\ DamlevOf(in1, in2) = 2
    /\ ret = 3
    /\ HammingOf(in1, in2) = 4

\* the number of flagged positions of a buffer of flags
Flags(matches) == Cardinality({k \in 1..Len(matches) : matches[k]})

\* the index-based scan from its start
ScanOf(word1, word2, matches1, matches2) ==
    jaro_scan(word1, word2, matches1, matches2, 0,
              [i2 |-> 0, trans |-> 0, in_bounds |-> TRUE])

\* the match loop on the arguments as they are, nothing trimmed, as the
\* engine of jaro/mod.rs runs it
MatchUntrimmed(a, b) ==
    jaro_match(a, b, 0, 0, jaro_i2_range(Len(a), Len(b), 0),
               jaro_reset(<<>>, Len(a)), jaro_reset(<<>>, Len(b)), 0)

\* C28: after the Jaro match pass the two buffers of flags hold the same
\* number of flags, the number the match counter holds, so no position was
\* flagged twice; the in-order pairing that counts the transpositions
\* therefore pairs every matched element of one sequence with one of the
\* other, and the transposition scan by index never moves its second index
\* past the end of the second sequence and counts the same transpositions.
C28_FlagsBalanced ==
    (kind = "Jaro" /\ op \in {"similarity", "rel_dist"}
        /\ Len(in1) > 0 /\ Len(in2) > 0) =>
       LET c  == jaro_counts(Jaro_new, in1, in2)
           t1 == Trimmed(in1, in2)
           t2 == Trimmed(in2, in1)
           m1 == eng.sliced.matches1
           m2 == eng.sliced.matches2
           u  == MatchUntrimmed(in1, in2)
       IN  /\ c.self = eng.sliced
           /\ Len(m1) = Len(t1) /\ Len(m2) = Len(t2)
           /\ Flags(m1) = c.matches
           /\ Flags(m2) = c.matches
           /\ Len(jaro_matched(t1, m1, 0)) = c.matches
           /\ Len(jaro_matched(t2, m2, 0)) = c.matches
           /\ ScanOf(t1, t2, m1, m2).in_bounds
           /\ ScanOf(t1, t2, m1, m2).i2 <= Len(t2)
           /\ ScanOf(t1, t2, m1, m2).trans = c.trans
           /\ Flags(u.matches1) = u.matches
           /\ Flags(u.matches2) = u.matches
           /\ ScanOf(in1, in2, u.matches1, u.matches2).in_bounds
           /\ ScanOf(in1, in2, u.matches1, u.matches2).i2 <= Len(in2)
           /\ ScanOf(in1, in2, u.matches1, u.matches2).trans
                 = UntrimmedTrans(in1, in2)

\* every position of both sequences is flagged, the last one of the second
\* sequence as the partner of the last match: the scan ends with its second
\* index at the length, without a read there
C28_Witness ==
    /\ IsCall("Jaro", "similarity")
    /\ in1 = <<1, 2, 2, 1>>
    /\ in2 = <<2, 1, 1, 2>>
    /\ eng.sliced.matches1 = <<TRUE, TRUE, TRUE, TRUE>>
    /\ eng.sliced.matches2 = <<TRUE, TRUE, TRUE, TRUE>>
    /\ jaro_counts(Jaro_new, in1, in2).matches = 4
    /\ ScanOf(in1, in2, eng.sliced.matches1, eng.sliced.matches2)
          = [i2 |-> Len(in2), trans |-> 4, in_bounds |-> TRUE]

\* the access to the cell (i, j) of m is inside the matrix and its index in
\* the backing vector is inside the vector
InBounds(m, i, j) ==
    /\ 0 <= i /\ i < m.size
    /\ 0 <= j /\ j < m.size
    /\ i * m.size + j < Len(m.raw) * Len(m.raw[1])

\* every get and set of a call on the slices s1 and s2 is in bounds of m
AccessesInBounds(m, s1, s2) ==
    /\ \A i1 \in 0..(Len(s1) - 1), i2 \in 0..(Len(s2) - 1) :
          /\ InBounds(m, i1 + 2, i2 + 1)
          /\ InBounds(m, i1 + 1, i2 + 2)
          /\ InBounds(m, i1 + 1, i2 + 1)
          /\ InBounds(m, last_i1_get(LastRows(s1, i1), s2[i2 + 1]),
                         LastAt(s2, i2, s1[i1 + 1]))
          /\ InBounds(m, i1 + 2, i2 + 2)
    /\ InBounds(m, Len(s1) + 1, Len(s2) + 1)

\* arguments at the edge of a matrix of the given side: one that fills it,
\* and one that is one element too long for it
EdgeSeqs(side) == {[i \in 1..n |-> 1] : n \in {side - 2, side - 1}}

\* C29: every unchecked access to the matrix that a Damerau-Levenshtein
\* distance call makes is in bounds: for each get or set at (i, j), i < side
\* and j < side for the side in effect after the grow at the start of the
\* call, and the index i * side + j is below the length of the backing
\* storage.  This holds for the call an engine has just served, and after the
\* grow of a next call whose longer argument just fills the matrix the engine
\* holds or is one element too long for it.
C29_AccessesInBounds ==
    kind = "DamerauLevenshtein" =>
       /\ op \in Methods =>
             AccessesInBounds(eng.sliced.dists, DamlevFirst(in1, in2),
                              DamlevSecond(in1, in2))
       /\ \A b \in EdgeSeqs(eng.sliced.dists.size) :
             \A g \in {damlev_grown(eng.sliced, <<2>>, b)} :
                 AccessesInBounds(g, <<2>>, b)

\* one element against an argument too long for the matrix of a new engine:
\* the last cell read lies past the side the matrix had before the grow
C29_Witness ==
    /\ IsCall("DamerauLevenshtein", "distance")
    /\ in1 = <<2>>
    /\ Len(in2) = LongLen
    /\ ret = LongLen
    /\ LongLen + 1 >= DAMLEV_DEFAULT_CAPACITY + 2
    /\ eng.sliced.dists.size = (LongLen + 2) + (LongLen + 2) \div 2
    /\ InBounds(eng.sliced.dists, 2, LongLen + 1)
    /\ ~InBounds(DamerauLevenshtein_new.dists, 2, LongLen + 1)

\* the cells of m and g agree wherever a call on slices of len1 and len2
\* elements does not write: rows 0-1, columns 0-1, and what lies past the
\* rows and columns of the slices
SameOutside(m, g, len1, len2) ==
    /\ m.size = g.size
    /\ \A r \in 0..(g.size - 1) :
          IF r < 2 \/ r > len1 + 1
          THEN m.raw[r + 1] = g.raw[r + 1]
          ELSE \A c \in 0..(g.size - 1) :
                  (c < 2 \/ c > len2 + 1) =>
                     DistMatrix_get(m, r, c) = DistMatrix_get(g, r, c)

\* rows 0-1 and columns 0-1 of m and g hold the same
SameBorder(m, g) ==
    /\ m.raw[1] = g.raw[1]
    /\ m.raw[2] = g.raw[2]
    /\ \A i \in 0..(g.size - 1) :
          /\ DistMatrix_get(m, i, 0) = DistMatrix_get(g, i, 0)
          /\ DistMatrix_get(m, i, 1) = DistMatrix_get(g, i, 1)

C30_CallStep ==
    (kind = "DamerauLevenshtein" /\ op' \in Methods) =>
       \A g \in {damlev_grown(eng.sliced, DamlevFirst(in1', in2'),
                              DamlevSecond(in1', in2'))} :
           /\ SameOutside(eng'.sliced.dists, g,
                          Len(DamlevFirst(in1', in2')),
                          Len(DamlevSecond(in1', in2')))
           /\ g.size = eng.sliced.dists.size =>
                 /\ eng'.sliced.dists.size = eng.sliced.dists.size
                 /\ SameBorder(eng'.sliced.dists, eng.sliced.dists)

\* C30: a Damerau-Levenshtein call writes interior cells only, those of the
\* rows 2 .. len1 + 1 and the columns 2 .. len2 + 1: every other cell is what
\* the grow at the start of the call made of it.  The cells of rows 0-1 and
\* columns 0-1 are changed by the initialization of construction and growth
\* only, so a call that does not grow the matrix leaves them as they were.
C30_BorderKept == [][C30_CallStep]_vars

\* the second call of an engine whose matrix has not grown: the interior
\* holds the cells of a transposition, the border is the one of construction
C30_Witness ==
    /\ IsCall("DamerauLevenshtein", "distance")
    /\ ncalls = MaxCalls
    /\ in1 = <<1, 2>>
    /\ in2 = <<2, 1>>
    /\ ret = 1
    /\ DistMatrix_get(eng.sliced.dists, 3, 3) = 1
    /\ eng.sliced.dists.size = DAMLEV_DEFAULT_CAPACITY + 2
    /\ SameBorder(eng.sliced.dists, DamerauLevenshtein_new.dists)
    /\ eng.sliced.dists # DamerauLevenshtein_new.dists

====
